---------------------------- MODULE Spec2Model ----------------------------
(***************************************************************************)
(* Decoder dictionary extraction of the FleetWise edge agent:              *)
(* CollectionSchemeManager::decoderDictionaryExtractor,                    *)
(* putComplexSignalInDictionary and decoderDictionaryUpdater               *)
(* (src/src/DecoderDictionaryExtractor.cpp).                               *)
(*                                                                         *)
(* One extraction pass is a run of the state machine: Begin resets the     *)
(* output map, then one step per loop iteration of the source (one signal  *)
(* reference, one raw-frame prologue, one raw CAN frame).  A second pass   *)
(* over the same scheme set, possibly iterated in another order, follows   *)
(* the first, on the map the first pass left behind.                       *)
(*                                                                         *)
(* Identifier widths: TLC integers are 32 bit signed, so the 32 bit        *)
(* signal id space is scaled to 8 bits (top bit = partial-signal tag, all  *)
(* ones = INVALID_SIGNAL_ID).  The 16 bit OBD result fields keep their     *)
(* real width.                                                             *)
(***************************************************************************)
EXTENDS Integers, Sequences, FiniteSets, TLC

(***************************************************************************)
(* Bounds of the model.                                                    *)
(***************************************************************************)
MaxSchemes == 2

MaxItems == 3

(***************************************************************************)
(* Sentinels and constants of the headers.                                 *)
(***************************************************************************)
INTERNAL_SIGNAL_ID_BITMASK == 2^7

INVALID_SIGNAL_ID == 2^8 - 1

INVALID_CAN_SOURCE_NUMERIC_ID == 2^8 - 1

BYTE_SIZE == 8

MAX_COMPLEX_TYPES == 4

SUPPORTED_NETWORK_PROTOCOL == {"RAW_SOCKET", "OBD", "COMPLEX_DATA"}

ToUint16(n) == n % 65536

ToUint8(n) == n % 256

(***************************************************************************)
(* Dictionary model.  A map value is one record shape for the null         *)
(* pointer, a CANDecoderDictionary and a ComplexDataDecoderDictionary;     *)
(* kind tells which, and is what dynamic_pointer_cast tests.               *)
(***************************************************************************)
NullDict ==
    [kind |-> "null", signalIDsToCollect |-> {},
     canMessageDecoderMethod |-> <<>>, complexMessageDecoderMethod |-> <<>>]

NewCANDecoderDictionary ==
    [kind |-> "can", signalIDsToCollect |-> {},
     canMessageDecoderMethod |-> <<>>, complexMessageDecoderMethod |-> <<>>]

NewComplexDataDecoderDictionary ==
    [kind |-> "complex", signalIDsToCollect |-> {},
     canMessageDecoderMethod |-> <<>>, complexMessageDecoderMethod |-> <<>>]

DefaultCANMessageFormat ==
    [mMessageID |-> 0, mSizeInBytes |-> 0, mSignals |-> <<>>]

\* A default-constructed CANMessageDecoderMethod
DefaultCANMessageDecoderMethod ==
    [collectType |-> "DECODE", format |-> DefaultCANMessageFormat]

\* A default-constructed ComplexDataMessageFormat (operator[] of the map)
DefaultComplexDataMessageFormat ==
    [mSignalId |-> INVALID_SIGNAL_ID, mRootTypeId |-> 0, mCollectRaw |-> FALSE,
     mComplexTypeMap |-> <<>>, mSignalPaths |-> <<>>]

\* std::map / std::unordered_map: operator[] and find
Has(m, k) == k \in DOMAIN m

Put(m, k, v) == [x \in DOMAIN m \cup {k} |-> IF x = k THEN v ELSE m[x]]

(***************************************************************************)
(* The decoder manifest of the model (read-only input).                    *)
(*   CAN      1, 2 -> frame 256 on can0;  3 -> frame 512 on can1;          *)
(*            4 -> frame 256 on canX, an interface the translator lacks    *)
(*   OBD      11, 12 -> PID 12;  13 -> PID 13 with byte length 0           *)
(*   COMPLEX  20, 23 -> ros2 /objects root 1;  21 -> ros2 /objects root 5; *)
(*            22 -> empty interface id;  24 -> ros2 /wide root 7;          *)
(*            25 -> ros2 /repeat root 13                                   *)
(*   30       a protocol tag the extractor cannot dispatch                 *)
(*   others   INVALID_PROTOCOL                                             *)
(* INVALID_SIGNAL_ID is an id like any other to the manifest: what it      *)
(* reports for it is part of the manifest the manager was given.           *)
(***************************************************************************)
VARIABLE mDecoderManifest         \* [invalidSignalIdProtocol]

getNetworkProtocol(signalId) ==
    CASE signalId \in {1, 2, 3, 4} -> "RAW_SOCKET"
      [] signalId = INVALID_SIGNAL_ID -> mDecoderManifest.invalidSignalIdProtocol
      [] signalId \in {11, 12, 13} -> "OBD"
      [] signalId \in {20, 21, 22, 23, 24, 25} -> "COMPLEX_DATA"
      [] signalId = 30 -> "UNKNOWN_PROTOCOL"
      [] OTHER -> "INVALID_PROTOCOL"

getCANFrameAndInterfaceID(signalId) ==
    CASE signalId \in {1, 2} -> <<256, "can0">>
      [] signalId = 3 -> <<512, "can1">>
      [] signalId = 4 -> <<256, "canX">>
      [] signalId = INVALID_SIGNAL_ID -> <<256, "can0">>
      [] OTHER -> <<0, "">>

CANSignalFormatOf(signalId, firstBit, sizeInBits) ==
    [mSignalID |-> signalId, mFirstBitPosition |-> firstBit,
     mSizeInBits |-> sizeInBits, mFactor |-> 1, mOffset |-> 0]

getCANMessageFormat(canRawFrameID, interfaceId) ==
    CASE canRawFrameID = 256 /\ interfaceId = "can0" ->
            [mMessageID |-> 256, mSizeInBytes |-> 8,
             mSignals |-> <<CANSignalFormatOf(1, 0, 16), CANSignalFormatOf(2, 16, 8)>>]
      [] canRawFrameID = 512 /\ interfaceId = "can1" ->
            [mMessageID |-> 512, mSizeInBytes |-> 4,
             mSignals |-> <<CANSignalFormatOf(3, 0, 8)>>]
      [] canRawFrameID = 256 /\ interfaceId = "canX" ->
            [mMessageID |-> 256, mSizeInBytes |-> 2,
             mSignals |-> <<CANSignalFormatOf(4, 0, 8)>>]
      [] OTHER -> DefaultCANMessageFormat

PIDSignalDecoderFormatOf(respLen, pid, scaling, offset, startByte, byteLength, shift, maskLen) ==
    [mPidResponseLength |-> respLen, mPID |-> pid, mScaling |-> scaling,
     mOffset |-> offset, mStartByte |-> startByte, mByteLength |-> byteLength,
     mBitRightShift |-> shift, mBitMaskLength |-> maskLen]

getPIDSignalDecoderFormat(signalId) ==
    CASE signalId = 11 -> PIDSignalDecoderFormatOf(4, 12, 2, 0, 0, 2, 0, 8)
      [] signalId = 12 -> PIDSignalDecoderFormatOf(261, 12, 1, 5, 2, 1, 0, 8)
      [] signalId = 13 -> PIDSignalDecoderFormatOf(2, 13, 1, 0, 8192, 0, 1, 0)
      [] OTHER -> PIDSignalDecoderFormatOf(0, 0, 0, 0, 0, 0, 0, 0)

getComplexSignalDecoderFormat(signalId) ==
    CASE signalId \in {20, 23} ->
            [mInterfaceId |-> "ros2", mMessageId |-> "/objects", mRootTypeId |-> 1]
      [] signalId = 21 ->
            [mInterfaceId |-> "ros2", mMessageId |-> "/objects", mRootTypeId |-> 5]
      [] signalId = 22 ->
            [mInterfaceId |-> "", mMessageId |-> "/x", mRootTypeId |-> 1]
      [] signalId = 24 ->
            [mInterfaceId |-> "ros2", mMessageId |-> "/wide", mRootTypeId |-> 7]
      [] signalId = 25 ->
            [mInterfaceId |-> "ros2", mMessageId |-> "/repeat", mRootTypeId |-> 13]
      [] OTHER -> [mInterfaceId |-> "", mMessageId |-> "", mRootTypeId |-> 0]

ComplexArray(t) == [kind |-> "ComplexArray", mRepeatedTypeId |-> t, mOrderedTypeIds |-> <<>>]

ComplexStruct(ts) == [kind |-> "ComplexStruct", mRepeatedTypeId |-> 0, mOrderedTypeIds |-> ts]

PrimitiveData == [kind |-> "PrimitiveData", mRepeatedTypeId |-> 0, mOrderedTypeIds |-> <<>>]

InvalidComplexVariant ==
    [kind |-> "InvalidComplexVariant", mRepeatedTypeId |-> 0, mOrderedTypeIds |-> <<>>]

\* 1 = array of 2; 2 = struct {3, 4}; 3, 4 primitive; 5 = struct {3, 6, 5},
\* cyclic and with the unknown member 6; 7 = struct {8, 9, 10, 3, 4}, more
\* types than MAX_COMPLEX_TYPES; 13 = struct {15, 14, 14, 14}, three types
\* with a repeated member
getComplexDataType(c) ==
    CASE c = 1 -> ComplexArray(2)
      [] c = 2 -> ComplexStruct(<<3, 4>>)
      [] c \in {3, 4, 8, 9, 10, 14, 15} -> PrimitiveData
      [] c = 5 -> ComplexStruct(<<3, 6, 5>>)
      [] c = 7 -> ComplexStruct(<<8, 9, 10, 3, 4>>)
      [] c = 13 -> ComplexStruct(<<15, 14, 14, 14>>)
      [] OTHER -> InvalidComplexVariant

\* CANInterfaceIDTranslator
getChannelNumericID(interfaceId) ==
    CASE interfaceId = "can0" -> 0
      [] interfaceId = "can1" -> 1
      [] OTHER -> INVALID_CAN_SOURCE_NUMERIC_ID

\* The partial-signal lookup table every scheme of the model carries:
\* partial id -> <<parent signal id, signal path>>.  132 is in no table.
getPartialSignalIdToSignalPathLookupTable ==
    (129 :> <<20, <<0, 1>>>>) @@ (130 :> <<20, <<1>>>>) @@
    (131 :> <<11, <<>>>>) @@ (133 :> <<21, <<1>>>>) @@ (134 :> <<20, <<>>>>) @@
    (135 :> <<2, <<>>>>)

(***************************************************************************)
(* Lines 30-36: clear the map, then one null entry per supported protocol. *)
(***************************************************************************)
\* Mutant: the map is cleared and the loop over the supported protocols is lost
ResetDictionaryMap_ClearOnly(m) == <<>>

\* Mutant: the map is not cleared, dictionaries of the last call are kept
ResetDictionaryMap_NoClear(m) ==
    [p \in SUPPORTED_NETWORK_PROTOCOL \cup DOMAIN m |-> IF Has(m, p) THEN m[p] ELSE NullDict]

ResetDictionaryMap(m) == [p \in SUPPORTED_NETWORK_PROTOCOL |-> NullDict]

\* std::map::operator[] on a key the map lacks default-constructs the value
\* (a null shared_ptr) and keeps the key.
Touch(m, k) == IF Has(m, k) THEN m ELSE Put(m, k, NullDict)

(***************************************************************************)
(* Lines 44-61: resolution of a partial signal id through the scheme's     *)
(* lookup table.                                                           *)
(***************************************************************************)
IsPartial(signalId) == (signalId \div INTERNAL_SIGNAL_ID_BITMASK) % 2 = 1

ResolveSignal(origId) ==
    IF IsPartial(origId)
    THEN IF Has(getPartialSignalIdToSignalPathLookupTable, origId)
         THEN [signalId |-> getPartialSignalIdToSignalPathLookupTable[origId][1],
               signalPath |-> getPartialSignalIdToSignalPathLookupTable[origId][2]]
         ELSE [signalId |-> INVALID_SIGNAL_ID, signalPath |-> <<>>]
    ELSE [signalId |-> origId, signalPath |-> <<>>]

(***************************************************************************)
(* Lines 72-92: lazy creation of the dictionary of a protocol.  The result *)
(* is the map and whether the signal goes on to dispatch.                  *)
(***************************************************************************)
\* Mutant: a CANDecoderDictionary is made for every dispatchable protocol
EnsureDictionary_AlwaysCan(m, networkType) ==
    LET m1 == Touch(m, networkType) IN
    IF m1[networkType].kind # "null"
    THEN [map |-> m1, go |-> TRUE]
    ELSE IF networkType \in {"RAW_SOCKET", "OBD", "COMPLEX_DATA"}
    THEN [map |-> Put(m1, networkType, NewCANDecoderDictionary), go |-> TRUE]
    ELSE [map |-> m1, go |-> FALSE]

EnsureDictionary(m, networkType) ==
    LET m1 == Touch(m, networkType) IN
    IF m1[networkType].kind # "null"
    THEN [map |-> m1, go |-> TRUE]
    ELSE IF networkType \in {"RAW_SOCKET", "OBD"}
    THEN [map |-> Put(m1, networkType, NewCANDecoderDictionary), go |-> TRUE]
    ELSE IF networkType = "COMPLEX_DATA"
    THEN [map |-> Put(m1, networkType, NewComplexDataDecoderDictionary), go |-> TRUE]
    ELSE [map |-> m1, go |-> FALSE]

(***************************************************************************)
(* Lines 116-145: the frame entry of a CAN signal.                         *)
(***************************************************************************)
\* Mutant: a signal overwrites the entry of its frame with a DECODE entry
PutDecodedFrame_Overwrite(cm, canChannelID, canRawFrameID, interfaceId) ==
    LET cm1 == IF Has(cm, canChannelID) THEN cm ELSE Put(cm, canChannelID, <<>>)
    IN  Put(cm1, canChannelID,
            Put(cm1[canChannelID], canRawFrameID,
                [collectType |-> "DECODE",
                 format |-> getCANMessageFormat(canRawFrameID, interfaceId)]))

\* Mutant: the upgrade of a RAW entry does not load the format
PutDecodedFrame_NoReload(cm, canChannelID, canRawFrameID, interfaceId) ==
    LET cm1 == IF Has(cm, canChannelID) THEN cm ELSE Put(cm, canChannelID, <<>>)
        frames == cm1[canChannelID]
    IN  IF ~Has(frames, canRawFrameID)
        THEN Put(cm1, canChannelID,
                 Put(frames, canRawFrameID,
                     [collectType |-> "DECODE",
                      format |-> getCANMessageFormat(canRawFrameID, interfaceId)]))
        ELSE IF frames[canRawFrameID].collectType = "RAW"
        THEN Put(cm1, canChannelID,
                 Put(frames, canRawFrameID,
                     [frames[canRawFrameID] EXCEPT !.collectType = "RAW_AND_DECODE"]))
        ELSE cm1

\* Mutant: an existing entry is left as it is, a RAW entry is not upgraded
PutDecodedFrame_KeepRaw(cm, canChannelID, canRawFrameID, interfaceId) ==
    LET cm1 == IF Has(cm, canChannelID) THEN cm ELSE Put(cm, canChannelID, <<>>)
        frames == cm1[canChannelID]
    IN  IF ~Has(frames, canRawFrameID)
        THEN Put(cm1, canChannelID,
                 Put(frames, canRawFrameID,
                     [collectType |-> "DECODE",
                      format |-> getCANMessageFormat(canRawFrameID, interfaceId)]))
        ELSE cm1

PutDecodedFrame(cm, canChannelID, canRawFrameID, interfaceId) ==
    LET cm1 == IF Has(cm, canChannelID) THEN cm ELSE Put(cm, canChannelID, <<>>)
        frames == cm1[canChannelID]
    IN  IF ~Has(frames, canRawFrameID)
        THEN Put(cm1, canChannelID,
                 Put(frames, canRawFrameID,
                     [collectType |-> "DECODE",
                      format |-> getCANMessageFormat(canRawFrameID, interfaceId)]))
        ELSE IF frames[canRawFrameID].collectType = "RAW"
        THEN Put(cm1, canChannelID,
                 Put(frames, canRawFrameID,
                     [collectType |-> "RAW_AND_DECODE",
                      format |-> getCANMessageFormat(canRawFrameID, interfaceId)]))
        ELSE cm1

(***************************************************************************)
(* Lines 94-147: dispatch of a RAW_SOCKET signal into its dictionary d.    *)
(***************************************************************************)
\* Mutant: the signal id is inserted only when its frame entry is created
CanSignalDispatch_InsertOnCreate(d, signalId) ==
    LET canRawFrameID == getCANFrameAndInterfaceID(signalId)[1]
        interfaceId == getCANFrameAndInterfaceID(signalId)[2]
        canChannelID == getChannelNumericID(interfaceId)
        cm == d.canMessageDecoderMethod
    IN  IF canChannelID = INVALID_CAN_SOURCE_NUMERIC_ID THEN d
        ELSE IF d.kind # "can" THEN d
        ELSE [d EXCEPT
                !.signalIDsToCollect =
                    IF Has(cm, canChannelID) /\ Has(cm[canChannelID], canRawFrameID)
                    THEN @ ELSE @ \cup {signalId},
                !.canMessageDecoderMethod =
                    PutDecodedFrame(@, canChannelID, canRawFrameID, interfaceId)]

\* Mutant: the signal id is inserted before the channel id is checked
CanSignalDispatch_InsertFirst(d, signalId) ==
    LET canRawFrameID == getCANFrameAndInterfaceID(signalId)[1]
        interfaceId == getCANFrameAndInterfaceID(signalId)[2]
        canChannelID == getChannelNumericID(interfaceId)
    IN  IF d.kind # "can" THEN d
        ELSE IF canChannelID = INVALID_CAN_SOURCE_NUMERIC_ID
        THEN [d EXCEPT !.signalIDsToCollect = @ \cup {signalId}]
        ELSE [d EXCEPT
                !.signalIDsToCollect = @ \cup {signalId},
                !.canMessageDecoderMethod =
                    PutDecodedFrame(@, canChannelID, canRawFrameID, interfaceId)]

CanSignalDispatch(d, signalId) ==
    LET canRawFrameID == getCANFrameAndInterfaceID(signalId)[1]
        interfaceId == getCANFrameAndInterfaceID(signalId)[2]
        canChannelID == getChannelNumericID(interfaceId)
    IN  IF canChannelID = INVALID_CAN_SOURCE_NUMERIC_ID THEN d
        ELSE IF d.kind # "can" THEN d
        ELSE [d EXCEPT
                !.signalIDsToCollect = @ \cup {signalId},
                !.canMessageDecoderMethod =
                    PutDecodedFrame(@, canChannelID, canRawFrameID, interfaceId)]

(***************************************************************************)
(* Lines 187-195: an OBD signal in the generic signal format; the two bit  *)
(* fields are static_cast<uint16_t> of the unsigned arithmetic.            *)
(***************************************************************************)
OBDSignalFormat(origId, pidDecoderFormat) ==
    [mSignalID |-> origId,
     mFirstBitPosition |->
        ToUint16(pidDecoderFormat.mStartByte * BYTE_SIZE + pidDecoderFormat.mBitRightShift),
     mSizeInBits |->
        ToUint16((pidDecoderFormat.mByteLength - 1) * BYTE_SIZE
                 + pidDecoderFormat.mBitMaskLength),
     mFactor |-> pidDecoderFormat.mScaling,
     mOffset |-> pidDecoderFormat.mOffset]

(***************************************************************************)
(* Lines 164-186: the PID entry under the one OBD channel.                 *)
(***************************************************************************)
EnsurePIDEntry(cm, canChannelID, pidDecoderFormat) ==
    LET cm1 == IF Has(cm, canChannelID) THEN cm ELSE Put(cm, canChannelID, <<>>)
        pids == cm1[canChannelID]
    IN  IF ~Has(pids, pidDecoderFormat.mPID)
        THEN Put(cm1, canChannelID,
                 Put(pids, pidDecoderFormat.mPID,
                     [DefaultCANMessageDecoderMethod EXCEPT
                        !.format.mMessageID = pidDecoderFormat.mPID,
                        !.format.mSizeInBytes =
                            ToUint8(pidDecoderFormat.mPidResponseLength)]))
        ELSE cm1

\* Lines 196-198: emplace_back on the entry's signal list
\* Mutant: the record is put at the front of the list
AppendSignalFormat_Front(signals, format) == <<format>> \o signals

\* Mutant: a record the list already holds is not added again
AppendSignalFormat_Unique(signals, format) ==
    IF \E n \in 1..Len(signals) : signals[n] = format THEN signals ELSE Append(signals, format)

AppendSignalFormat(signals, format) == Append(signals, format)

(***************************************************************************)
(* Lines 148-200: dispatch of an OBD signal into its dictionary d.         *)
(***************************************************************************)
\* Mutant: the two ids change places, the record carries the resolved id and
\* the set the id of the scheme
ObdSignalDispatch_IdsSwapped(d, signalId, origId) ==
    LET pidDecoderFormat == getPIDSignalDecoderFormat(signalId)
        canChannelID == 0
    IN  IF d.kind # "can" THEN d
        ELSE LET cm1 == EnsurePIDEntry(d.canMessageDecoderMethod, canChannelID,
                                       pidDecoderFormat)
                 entry == cm1[canChannelID][pidDecoderFormat.mPID]
                 entry1 == [entry EXCEPT !.format.mSignals =
                               AppendSignalFormat(@, OBDSignalFormat(signalId, pidDecoderFormat))]
             IN  [d EXCEPT
                    !.signalIDsToCollect = @ \cup {origId},
                    !.canMessageDecoderMethod =
                        Put(cm1, canChannelID,
                            Put(cm1[canChannelID], pidDecoderFormat.mPID, entry1))]

ObdSignalDispatch(d, signalId, origId) ==
    LET pidDecoderFormat == getPIDSignalDecoderFormat(signalId)
        canChannelID == 0
    IN  IF d.kind # "can" THEN d
        ELSE LET cm1 == EnsurePIDEntry(d.canMessageDecoderMethod, canChannelID,
                                       pidDecoderFormat)
                 entry == cm1[canChannelID][pidDecoderFormat.mPID]
                 entry1 == [entry EXCEPT !.format.mSignals =
                               AppendSignalFormat(@, OBDSignalFormat(origId, pidDecoderFormat))]
             IN  [d EXCEPT
                    !.signalIDsToCollect = @ \cup {signalId},
                    !.canMessageDecoderMethod =
                        Put(cm1, canChannelID,
                            Put(cm1[canChannelID], pidDecoderFormat.mPID, entry1))]

(***************************************************************************)
(* Lines 311-357: the bounded traversal of the type graph with an explicit *)
(* stack (top = last element) and a budget counting every pop.             *)
(***************************************************************************)
\* Mutant: the budget is never decremented, the loop ends on the empty stack
RECURSIVE TraverseComplexTypes_NoBudget(_, _, _)
TraverseComplexTypes_NoBudget(complexTypesToTraverse, elementsLeftToProcess, typeMap) ==
    IF complexTypesToTraverse = <<>>
    THEN typeMap
    ELSE LET c == complexTypesToTraverse[Len(complexTypesToTraverse)]
             popped == SubSeq(complexTypesToTraverse, 1, Len(complexTypesToTraverse) - 1)
             complexDataType == getComplexDataType(c)
         IN  IF Has(typeMap, c) \/ complexDataType.kind = "InvalidComplexVariant"
             THEN TraverseComplexTypes_NoBudget(popped, elementsLeftToProcess, typeMap)
             ELSE TraverseComplexTypes_NoBudget(
                      IF complexDataType.kind = "ComplexArray"
                      THEN Append(popped, complexDataType.mRepeatedTypeId)
                      ELSE popped \o complexDataType.mOrderedTypeIds,
                      elementsLeftToProcess, Put(typeMap, c, complexDataType))

\* Mutant: the test for the Invalid variant is lost, every id met is stored
RECURSIVE TraverseComplexTypes_StoreInvalid(_, _, _)
TraverseComplexTypes_StoreInvalid(complexTypesToTraverse, elementsLeftToProcess, typeMap) ==
    IF ~(elementsLeftToProcess > 0 /\ complexTypesToTraverse # <<>>)
    THEN typeMap
    ELSE LET c == complexTypesToTraverse[Len(complexTypesToTraverse)]
             popped == SubSeq(complexTypesToTraverse, 1, Len(complexTypesToTraverse) - 1)
             complexDataType == getComplexDataType(c)
         IN  IF Has(typeMap, c)
             THEN TraverseComplexTypes_StoreInvalid(popped, elementsLeftToProcess - 1, typeMap)
             ELSE LET pushed ==
                        IF complexDataType.kind = "ComplexArray"
                        THEN Append(popped, complexDataType.mRepeatedTypeId)
                        ELSE IF complexDataType.kind = "ComplexStruct"
                        THEN popped \o complexDataType.mOrderedTypeIds
                        ELSE popped
                  IN  TraverseComplexTypes_StoreInvalid(pushed, elementsLeftToProcess - 1,
                                                        Put(typeMap, c, complexDataType))

RECURSIVE TraverseComplexTypes(_, _, _)
TraverseComplexTypes(complexTypesToTraverse, elementsLeftToProcess, typeMap) ==
    IF ~(elementsLeftToProcess > 0 /\ complexTypesToTraverse # <<>>)
    THEN typeMap
    ELSE LET c == complexTypesToTraverse[Len(complexTypesToTraverse)]
             popped == SubSeq(complexTypesToTraverse, 1, Len(complexTypesToTraverse) - 1)
             complexDataType == getComplexDataType(c)
         IN  IF Has(typeMap, c)
             THEN TraverseComplexTypes(popped, elementsLeftToProcess - 1, typeMap)
             ELSE IF complexDataType.kind = "InvalidComplexVariant"
             THEN TraverseComplexTypes(popped, elementsLeftToProcess - 1, typeMap)
             ELSE LET pushed ==
                        IF complexDataType.kind = "ComplexArray"
                        THEN Append(popped, complexDataType.mRepeatedTypeId)
                        ELSE IF complexDataType.kind = "ComplexStruct"
                        THEN popped \o complexDataType.mOrderedTypeIds
                        ELSE popped
                  IN  TraverseComplexTypes(pushed, elementsLeftToProcess - 1,
                                           Put(typeMap, c, complexDataType))

(***************************************************************************)
(* SignalPathAndPartialSignalID::operator< : the path lexicographically,   *)
(* then the partial signal id.                                             *)
(***************************************************************************)
RECURSIVE PathLess(_, _)
PathLess(a, b) ==
    IF b = <<>> THEN FALSE
    ELSE IF a = <<>> THEN TRUE
    ELSE IF Head(a) # Head(b) THEN Head(a) < Head(b)
    ELSE PathLess(Tail(a), Tail(b))

SignalPathLess(x, y) ==
    \/ PathLess(x.mSignalPath, y.mSignalPath)
    \/ x.mSignalPath = y.mSignalPath /\ x.mPartialSignalID < y.mPartialSignalID

\* Lines 365-370: insert at std::upper_bound, the first element greater than
\* the new one
\* Mutant: the new element goes to the end of the list
InsertSorted_Back(paths, new) == Append(paths, new)

InsertSorted(paths, new) ==
    LET greater == {n \in 1..Len(paths) : SignalPathLess(new, paths[n])}
        at == IF greater = {} THEN Len(paths) + 1
              ELSE CHOOSE n \in greater : \A o \in greater : n <= o
    IN  SubSeq(paths, 1, at - 1) \o <<new>> \o SubSeq(paths, at, Len(paths))

(***************************************************************************)
(* Lines 298-372: putComplexSignalInDictionary.                            *)
(***************************************************************************)
\* Mutant: the first-time test of line 305 is lost, every reference writes
\* the ids and traverses again
putComplexSignalInDictionary_AlwaysInit(complexSignal, signalID, partialSignalID, signalPath, complexSignalRootType) ==
    LET c1 == [complexSignal EXCEPT
                 !.mSignalId = signalID,
                 !.mRootTypeId = complexSignalRootType,
                 !.mComplexTypeMap =
                     TraverseComplexTypes(<<complexSignalRootType>>, MAX_COMPLEX_TYPES, @)]
    IN  IF signalPath = <<>>
        THEN [c1 EXCEPT !.mCollectRaw = TRUE]
        ELSE [c1 EXCEPT !.mSignalPaths =
                 InsertSorted(@, [mSignalPath |-> signalPath,
                                  mPartialSignalID |-> partialSignalID])]

\* Mutant: mCollectRaw is assigned from the path of every reference, a
\* reference with a path clears it
putComplexSignalInDictionary_ResetRaw(complexSignal, signalID, partialSignalID, signalPath, complexSignalRootType) ==
    LET c1 == IF complexSignal.mSignalId = INVALID_SIGNAL_ID
              THEN [complexSignal EXCEPT
                      !.mSignalId = signalID,
                      !.mRootTypeId = complexSignalRootType,
                      !.mComplexTypeMap =
                          TraverseComplexTypes(<<complexSignalRootType>>,
                                               MAX_COMPLEX_TYPES, @)]
              ELSE complexSignal
    IN  IF signalPath = <<>>
        THEN [c1 EXCEPT !.mCollectRaw = TRUE]
        ELSE [c1 EXCEPT !.mCollectRaw = FALSE,
                        !.mSignalPaths =
                            InsertSorted(@, [mSignalPath |-> signalPath,
                                             mPartialSignalID |-> partialSignalID])]

putComplexSignalInDictionary(complexSignal, signalID, partialSignalID, signalPath, complexSignalRootType) ==
    LET c1 == IF complexSignal.mSignalId = INVALID_SIGNAL_ID
              THEN [complexSignal EXCEPT
                      !.mSignalId = signalID,
                      !.mRootTypeId = complexSignalRootType,
                      !.mComplexTypeMap =
                          TraverseComplexTypes(<<complexSignalRootType>>,
                                               MAX_COMPLEX_TYPES, @)]
              ELSE complexSignal
    IN  IF signalPath = <<>>
        THEN [c1 EXCEPT !.mCollectRaw = TRUE]
        ELSE [c1 EXCEPT !.mSignalPaths =
                 InsertSorted(@, [mSignalPath |-> signalPath,
                                  mPartialSignalID |-> partialSignalID])]

(***************************************************************************)
(* Lines 202-233: dispatch of a COMPLEX_DATA signal into its dictionary d. *)
(***************************************************************************)
\* Mutant: the resolved parent id is handed over as the partial signal id
ComplexSignalDispatch_ParentAsPartial(d, signalId, origId, signalPath) ==
    IF d.kind # "complex" THEN d
    ELSE IF signalId = INVALID_SIGNAL_ID THEN d
    ELSE LET complexSignalInfo == getComplexSignalDecoderFormat(signalId)
             cmm == d.complexMessageDecoderMethod
             iface == complexSignalInfo.mInterfaceId
             msg == complexSignalInfo.mMessageId
         IN  IF iface = "" THEN d
             ELSE LET byMsg == IF Has(cmm, iface) THEN cmm[iface] ELSE <<>>
                      complexSignal == IF Has(byMsg, msg) THEN byMsg[msg]
                                       ELSE DefaultComplexDataMessageFormat
                  IN  [d EXCEPT !.complexMessageDecoderMethod =
                         Put(cmm, iface,
                             Put(byMsg, msg,
                                 putComplexSignalInDictionary(
                                     complexSignal, signalId, signalId, signalPath,
                                     complexSignalInfo.mRootTypeId)))]

ComplexSignalDispatch(d, signalId, origId, signalPath) ==
    IF d.kind # "complex" THEN d
    ELSE IF signalId = INVALID_SIGNAL_ID THEN d
    ELSE LET complexSignalInfo == getComplexSignalDecoderFormat(signalId)
             cmm == d.complexMessageDecoderMethod
             iface == complexSignalInfo.mInterfaceId
             msg == complexSignalInfo.mMessageId
         IN  IF iface = "" THEN d
             ELSE LET byMsg == IF Has(cmm, iface) THEN cmm[iface] ELSE <<>>
                      complexSignal == IF Has(byMsg, msg) THEN byMsg[msg]
                                       ELSE DefaultComplexDataMessageFormat
                  IN  [d EXCEPT !.complexMessageDecoderMethod =
                         Put(cmm, iface,
                             Put(byMsg, msg,
                                 putComplexSignalInDictionary(
                                     complexSignal, signalId, origId, signalPath,
                                     complexSignalInfo.mRootTypeId)))]

(***************************************************************************)
(* Lines 42-235: the body of the signal loop for one signal reference.     *)
(***************************************************************************)
ExtractorSignalStep(m, origId) ==
    LET r == ResolveSignal(origId)
        networkType == getNetworkProtocol(r.signalId)
    IN  IF networkType = "INVALID_PROTOCOL" THEN m
        ELSE LET e == EnsureDictionary(m, networkType)
                 d == e.map[networkType]
             IN  IF ~e.go THEN e.map
                 ELSE IF networkType = "RAW_SOCKET"
                 THEN Put(e.map, networkType, CanSignalDispatch(d, r.signalId))
                 ELSE IF networkType = "OBD"
                 THEN Put(e.map, networkType, ObdSignalDispatch(d, r.signalId, origId))
                 ELSE IF networkType = "COMPLEX_DATA"
                 THEN Put(e.map, networkType,
                          ComplexSignalDispatch(d, r.signalId, origId, r.signalPath))
                 ELSE e.map

(***************************************************************************)
(* Lines 238-250: before the raw frames of a scheme that has some, the     *)
(* RAW_SOCKET dictionary is created if the map holds none.                 *)
(***************************************************************************)
\* Mutant: the RAW_SOCKET dictionary is looked up but not created
RawFramesPrologue_NoCreate(m) == Touch(m, "RAW_SOCKET")

RawFramesPrologue(m) ==
    LET m1 == Touch(m, "RAW_SOCKET") IN
    IF m1["RAW_SOCKET"].kind = "null"
    THEN Put(m1, "RAW_SOCKET", NewCANDecoderDictionary)
    ELSE m1

(***************************************************************************)
(* Lines 262-289: the entry of a raw CAN frame on a known channel.         *)
(***************************************************************************)
\* Mutant: a raw frame overwrites the entry of its frame
PutRawFrame_Overwrite(cm, canChannelID, frameID) ==
    LET cm1 == IF Has(cm, canChannelID) THEN cm ELSE Put(cm, canChannelID, <<>>)
    IN  Put(cm1, canChannelID,
            Put(cm1[canChannelID], frameID,
                [DefaultCANMessageDecoderMethod EXCEPT !.collectType = "RAW"]))

PutRawFrame(cm, canChannelID, frameID) ==
    LET cm1 == IF Has(cm, canChannelID) THEN cm ELSE Put(cm, canChannelID, <<>>)
        frames == cm1[canChannelID]
    IN  IF ~Has(frames, frameID)
        THEN Put(cm1, canChannelID,
                 Put(frames, frameID,
                     [DefaultCANMessageDecoderMethod EXCEPT !.collectType = "RAW"]))
        ELSE IF frames[frameID].collectType = "DECODE"
        THEN Put(cm1, canChannelID,
                 Put(frames, frameID,
                     [frames[frameID] EXCEPT !.collectType = "RAW_AND_DECODE"]))
        ELSE cm1

(***************************************************************************)
(* Lines 253-291: the body of the raw-frame loop for one frame.            *)
(***************************************************************************)
\* Mutant: the channel sub-map is created before the channel id is checked
RawFrameDispatch_ChannelFirst(d, canFrameInfo) ==
    LET canChannelID == getChannelNumericID(canFrameInfo.interfaceID)
        cm == d.canMessageDecoderMethod
        cm1 == IF Has(cm, canChannelID) THEN cm ELSE Put(cm, canChannelID, <<>>)
    IN  IF canChannelID = INVALID_CAN_SOURCE_NUMERIC_ID
        THEN [d EXCEPT !.canMessageDecoderMethod = cm1]
        ELSE [d EXCEPT !.canMessageDecoderMethod =
                 PutRawFrame(cm1, canChannelID, canFrameInfo.frameID)]

RawFrameDispatch(d, canFrameInfo) ==
    LET canChannelID == getChannelNumericID(canFrameInfo.interfaceID) IN
    IF canChannelID = INVALID_CAN_SOURCE_NUMERIC_ID THEN d
    ELSE [d EXCEPT !.canMessageDecoderMethod =
             PutRawFrame(@, canChannelID, canFrameInfo.frameID)]

ExtractorRawFrameStep(m, canFrameInfo) ==
    IF m["RAW_SOCKET"].kind # "can" THEN m
    ELSE Put(m, "RAW_SOCKET", RawFrameDispatch(m["RAW_SOCKET"], canFrameInfo))

(***************************************************************************)
(* Lines 26-295: decoderDictionaryExtractor as one call, on the map m the  *)
(* caller hands in and the schemes in iteration order.                     *)
(***************************************************************************)
RECURSIVE RunSignals(_, _)
RunSignals(m, signals) ==
    IF signals = <<>> THEN m
    ELSE RunSignals(ExtractorSignalStep(m, Head(signals)), Tail(signals))

RECURSIVE RunRawFrames(_, _)
RunRawFrames(m, frames) ==
    IF frames = <<>> THEN m
    ELSE RunRawFrames(ExtractorRawFrameStep(m, Head(frames)), Tail(frames))

RunScheme(m, scheme) ==
    LET m1 == RunSignals(m, scheme.signals) IN
    IF scheme.rawFrames = <<>> THEN m1
    ELSE RunRawFrames(RawFramesPrologue(m1), scheme.rawFrames)

RECURSIVE RunSchemes(_, _)
RunSchemes(m, schemes) ==
    IF schemes = <<>> THEN m
    ELSE RunSchemes(RunScheme(m, Head(schemes)), Tail(schemes))

decoderDictionaryExtractor(m, schemes) == RunSchemes(ResetDictionaryMap(m), schemes)

(***************************************************************************)
(* Lines 375-387: decoderDictionaryUpdater walks the keys of the map (a    *)
(* std::map, in the order of the protocol values) and hands every key and  *)
(* its dictionary pointer to notifyListeners, which calls the callback of  *)
(* every registered listener.                                              *)
(***************************************************************************)
mListeners == <<"CANDataConsumer", "OBDOverCANModule">>

ProtocolOrder == <<"RAW_SOCKET", "OBD", "COMPLEX_DATA", "UNKNOWN_PROTOCOL">>

\* Mutant: keys with a null dictionary are passed over
UpdaterKeys_NonNull(m) == SelectSeq(ProtocolOrder, LAMBDA p : Has(m, p) /\ m[p].kind # "null")

UpdaterKeys(m) == SelectSeq(ProtocolOrder, LAMBDA p : Has(m, p))

\* A shared_ptr as seen by a listener: the object it points to (0 for
\* nullptr) and that object's content at the time of the call
SharedPtr(object, content) == [object |-> object, content |-> content]

notifyListeners(log, dictPtr, protocol) ==
    log \o [n \in 1..Len(mListeners) |->
              [listener |-> mListeners[n], protocol |-> protocol, dictionary |-> dictPtr]]

(***************************************************************************)
(* The dictionary objects behind the pointers of the map.  Lines 35, 77,   *)
(* 83 and 243 are the only assignments to a map value: nullptr, or the     *)
(* result of std::make_shared, a new object, assigned where the value was  *)
(* null.  A value that is non-null before and after a step points to the   *)
(* same object.                                                            *)
(***************************************************************************)
ObjectOf(objects, protocol) == IF Has(objects, protocol) THEN objects[protocol] ELSE 0

TrackObjects(objects, made, before, after) ==
    LET created == SelectSeq(ProtocolOrder,
                             LAMBDA p : /\ Has(after, p) /\ after[p].kind # "null"
                                        /\ ~(Has(before, p) /\ before[p].kind # "null"))
        Rank(p) == CHOOSE n \in 1..Len(created) : created[n] = p
    IN  [objects |-> [p \in DOMAIN after |->
                        IF after[p].kind = "null" THEN 0
                        ELSE IF Has(before, p) /\ before[p].kind # "null"
                        THEN ObjectOf(objects, p)
                        ELSE made + Rank(p)],
         made |-> made + Len(created)]

(***************************************************************************)
(* Inputs.  A scheme is its collect_signals list and its raw CAN frame     *)
(* list, drawn from one of the universes below; the enabled-scheme map is  *)
(* a sequence of at most MaxSchemes schemes in iteration order (the key    *)
(* order of the std::map) that hold at most MaxItems signal references and *)
(* raw frames together.                                                    *)
(***************************************************************************)
Frame(frameID, interfaceID) == [frameID |-> frameID, interfaceID |-> interfaceID]

Universe(ids, frames) == [ids |-> ids, frames |-> frames]

Universes ==
    { Universe({1, 2}, {Frame(256, "can0")}),
      Universe({3, 4}, {Frame(512, "can1")}),
      Universe({1}, {Frame(256, "can0"), Frame(256, "canX")}),
      Universe({1, 11}, {Frame(256, "can0")}),
      Universe({11, 12, 13}, {}),
      Universe({11, 12, 131}, {}),
      Universe({20, 21, 23}, {}),
      Universe({20, 129, 130}, {}),
      Universe({130, 133, 134}, {}),
      Universe({20, 22, 132}, {}),
      Universe({1, 30, 40}, {}),
      Universe({12, 20, 30}, {}),
      Universe({24, 25}, {}),
      Universe({2, 135}, {}) }

SeqsUpTo(S, n) == UNION {[1..m -> S] : m \in 0..n}

SchemeSize(scheme) == Len(scheme.signals) + Len(scheme.rawFrames)

SchemesOver(u, budget) ==
    { [signals |-> p[1], rawFrames |-> p[2]] :
        p \in { q \in SeqsUpTo(u.ids, budget) \X SeqsUpTo(u.frames, budget) :
                  Len(q[1]) + Len(q[2]) <= budget } }

RECURSIVE SchemeMapsOver(_, _, _)
SchemeMapsOver(u, n, budget) ==
    IF n = 0 THEN {<<>>}
    ELSE {<<>>} \cup
         UNION { { <<scheme>> \o rest :
                     rest \in SchemeMapsOver(u, n - 1, budget - SchemeSize(scheme)) } :
                 scheme \in SchemesOver(u, budget) }

SchemeMaps == UNION { SchemeMapsOver(u, MaxSchemes, MaxItems) : u \in Universes }

\* The manifests of the model differ in the protocol they report for
\* INVALID_SIGNAL_ID, which the extractor asks for only after a partial id
\* that its scheme's table lacks.
HasUnknownPartialId(schemes) ==
    \E n \in 1..Len(schemes) : \E o \in 1..Len(schemes[n].signals) :
        ResolveSignal(schemes[n].signals[o]).signalId = INVALID_SIGNAL_ID

Manifests(schemes) ==
    { [invalidSignalIdProtocol |-> protocol] :
        protocol \in IF HasUnknownPartialId(schemes)
                     THEN {"INVALID_PROTOCOL", "RAW_SOCKET", "OBD", "COMPLEX_DATA"}
                     ELSE {"INVALID_PROTOCOL"} }

Reorderings(schemes) ==
    { [n \in 1..Len(schemes) |-> schemes[p[n]]] : p \in Permutations(1..Len(schemes)) }

(***************************************************************************)
(* IWaveGpsSource: the NMEA reader of src/unnamed/part_001.                *)
(*                                                                         *)
(* The text read from the device is a sequence of characters, each a       *)
(* one-symbol string; "LF" is the line feed and "NUL" the zero byte.       *)
(* Coordinates are held in arc minutes, degrees times 60, so that the      *)
(* conversion from the degrees-and-minutes form of NMEA is exact on        *)
(* integers.  A double is a record: finite with a value, infinite, or not  *)
(* a number.                                                               *)
(***************************************************************************)
MaxPolls == 2

\* IWaveGpsSource.h, scaled: the size of mBuffer
MAX_BYTES_READ_PER_POLL == 44

Finite(n) == [kind |-> "finite", value |-> n]
HUGE_VAL == [kind |-> "inf", value |-> 0]
NaN == [kind |-> "nan", value |-> 0]

VARIABLES
    mBuffer,                  \* char mBuffer[MAX_BYTES_READ_PER_POLL]
    mSignalBufferPtr,         \* [null, capacity, frames]: null, or the buffer it points to
    mLatitudeStartBit,
    mLongitudeStartBit,
    mGpggaLineCounter,
    mValidCoordinateCounter,
    traceModule,              \* TraceModule's atomic variables
    gpsPc,                    \* off, idle, scan
    bytes,                    \* result of the last read()
    pollI,                    \* the local i of pollData
    lastValidLongitude,
    lastValidLatitude,
    foundValid,
    polls,                    \* calls of pollData so far, the clock of the model
    lineResults,              \* history: what each $GPGGA line of this poll gave
    pushLog,                  \* history: the frames this poll handed to push()
    mPathToNmeaSource,
    mCanChannel,
    mCanRawFrameId,
    filter,                   \* what setFilter was last called with, if it was
    inits,                    \* calls of init so far
    initLog                   \* history: the arguments and the result of the last init

gpsVars == <<mBuffer, mSignalBufferPtr, mLatitudeStartBit, mLongitudeStartBit,
             mGpggaLineCounter, mValidCoordinateCounter, traceModule, gpsPc, bytes,
             pollI, lastValidLongitude, lastValidLatitude, foundValid, polls,
             lineResults, pushLog, mPathToNmeaSource, mCanChannel, mCanRawFrameId,
             filter, inits, initLog>>

\* The members pollData does not write, and the history of init
gpsConfigVars == <<mPathToNmeaSource, mCanChannel, mCanRawFrameId, filter, inits, initLog>>

\* TraceModule: addToAtomicVariable, incrementAtomicVariable,
\* subtractFromAtomicVariable
addToAtomicVariable(trace, variable, n) == [trace EXCEPT ![variable] = @ + n]

incrementAtomicVariable(trace, variable) == addToAtomicVariable(trace, variable, 1)

subtractFromAtomicVariable(trace, variable, n) == [trace EXCEPT ![variable] = @ - n]

nullptr == [null |-> TRUE, capacity |-> 0, frames |-> <<>>]

SignalBuffer(capacity) == [null |-> FALSE, capacity |-> capacity, frames |-> <<>>]

\* SignalBuffer::push: false when the queue is full
PushAccepted(buffer) == Len(buffer.frames) < buffer.capacity

\* CustomDataSource::getSignalIdFromStartBit, from the frame's decoder format
getSignalIdFromStartBit(startBit) ==
    CASE startBit = 32 -> 1
      [] startBit = 0 -> 2
      [] OTHER -> INVALID_SIGNAL_ID

\* Lines 196-204
validLatitude(latitude) ==
    latitude.kind = "finite" /\ latitude.value >= -90 * 60 /\ latitude.value <= 90 * 60

validLongitude(longitude) ==
    longitude.kind = "finite" /\ longitude.value >= -180 * 60 /\ longitude.value <= 180 * 60

\* Lines 206-216.  floor(dmm / 100) degrees and the rest minutes; an infinite
\* dmm gives infinity plus (infinity minus infinity), not a number.
convertDmmToDdCoordinates(dmm, positive) ==
    IF dmm.kind # "finite" THEN NaN
    ELSE LET degrees == 60 * (dmm.value \div 100) + (dmm.value % 100)
         IN  Finite(IF positive THEN degrees ELSE -degrees)

(***************************************************************************)
(* std::strtod on the memory from position pos (1-based): white space is   *)
(* skipped, then the longest run of decimal digits is the value.           *)
(* converted is FALSE when there was no digit (end == nptr).  The texts of *)
(* the model hold no sign, point or exponent.                              *)
(***************************************************************************)
Digits == <<"0", "1", "2", "3", "4", "5", "6", "7", "8", "9">>

IsDigit(c) == \E n \in 1..10 : Digits[n] = c

DigitValue(c) == (CHOOSE n \in 1..10 : Digits[n] = c) - 1

RECURSIVE SkipWhiteSpace(_, _)
SkipWhiteSpace(memory, pos) ==
    IF pos <= Len(memory) /\ memory[pos] = "LF" THEN SkipWhiteSpace(memory, pos + 1) ELSE pos

\* A double holds every run of digits; the model holds the values from
\* StrtodCap on, all far beyond a valid coordinate, as StrtodCap, whatever
\* digits follow.
StrtodCap == 10000000

RECURSIVE StrtodDigits(_, _, _, _)
StrtodDigits(memory, pos, value, converted) ==
    IF pos <= Len(memory) /\ IsDigit(memory[pos])
    THEN LET next == 10 * value + DigitValue(memory[pos])
         IN  IF next >= StrtodCap
             THEN [value |-> StrtodCap, converted |-> TRUE]
             ELSE StrtodDigits(memory, pos + 1, next, TRUE)
    ELSE [value |-> value, converted |-> converted]

strtod(memory, pos) == StrtodDigits(memory, SkipWhiteSpace(memory, pos), 0, FALSE)

(***************************************************************************)
(* Lines 218-273: extractLongAndLatitudeFromLine.  start is the C index of *)
(* the first character after "$GPGGA,", memory is mBuffer followed by what *)
(* lies behind it.  st holds the locals and the reference parameters.      *)
(***************************************************************************)
RECURSIVE ExtractLoop(_, _, _, _, _)
ExtractLoop(memory, start, limit, n, st) ==
    IF ~(n < limit) THEN [st EXCEPT !.processedBytes = n]
    ELSE IF memory[start + n + 1] # "," THEN ExtractLoop(memory, start, limit, n + 1, st)
    ELSE LET commaCounter == st.commaCounter + 1
             number == strtod(memory, start + n + 2)
             parsed == IF ~number.converted THEN HUGE_VAL ELSE Finite(number.value)
             st1 == [st EXCEPT !.commaCounter = commaCounter]
         IN  IF commaCounter = 1
             THEN ExtractLoop(memory, start, limit, n + 1,
                      [st1 EXCEPT !.latitude = IF n - st.lastCommaPosition > 1 THEN parsed ELSE @,
                                  !.lastCommaPosition = n])
             ELSE IF commaCounter = 2
             THEN ExtractLoop(memory, start, limit, n + 1,
                      [st1 EXCEPT !.north = (memory[start + n + 2] = "N"),
                                  !.lastCommaPosition = n])
             ELSE IF commaCounter = 3
             THEN ExtractLoop(memory, start, limit, n + 1,
                      [st1 EXCEPT !.longitude = IF n - st.lastCommaPosition > 1 THEN parsed ELSE @,
                                  !.lastCommaPosition = n])
             ELSE IF commaCounter = 4
             THEN [st1 EXCEPT !.east = (memory[start + n + 2] = "E"), !.processedBytes = n]
             ELSE ExtractLoop(memory, start, limit, n + 1, [st1 EXCEPT !.lastCommaPosition = n])

extractLongAndLatitudeFromLine(memory, start, limit) ==
    ExtractLoop(memory, start, limit, 0,
                [commaCounter |-> 0, lastCommaPosition |-> 0, processedBytes |-> 0,
                 longitude |-> HUGE_VAL, latitude |-> HUGE_VAL, north |-> TRUE, east |-> TRUE])

(***************************************************************************)
(* Lines 139-158: one iteration of the scan loop of pollData, on the       *)
(* locals [i, lastValidLongitude, lastValidLatitude, foundValid].  line is *)
(* <<>> when no "$GPGGA," starts at i, else what the line gave.            *)
(***************************************************************************)
GPGGA == <<"$", "G", "P", "G", "G", "A", ",">>

\* Mutant: a valid line is taken only while none was found, the first one wins
ScanIteration_FirstValid(memory, nbytes, locals) ==
    IF SubSeq(memory, locals.i + 1, locals.i + 7) # GPGGA
    THEN [locals EXCEPT !.i = @ + 1, !.line = <<>>]
    ELSE LET e == extractLongAndLatitudeFromLine(memory, locals.i + 7, nbytes - (locals.i + 7))
             longitude == convertDmmToDdCoordinates(e.longitude, e.east)
             latitude == convertDmmToDdCoordinates(e.latitude, e.north)
             valid == validLatitude(latitude) /\ validLongitude(longitude)
             line == <<[latitude |-> latitude, longitude |-> longitude, valid |-> valid]>>
         IN  IF valid /\ ~locals.foundValid
             THEN [i |-> locals.i + e.processedBytes + 1, lastValidLongitude |-> longitude,
                   lastValidLatitude |-> latitude, foundValid |-> TRUE, line |-> line]
             ELSE [locals EXCEPT !.i = @ + e.processedBytes + 1, !.line = line]

ScanIteration(memory, nbytes, locals) ==
    IF SubSeq(memory, locals.i + 1, locals.i + 7) # GPGGA
    THEN [locals EXCEPT !.i = @ + 1, !.line = <<>>]
    ELSE LET e == extractLongAndLatitudeFromLine(memory, locals.i + 7, nbytes - (locals.i + 7))
             longitude == convertDmmToDdCoordinates(e.longitude, e.east)
             latitude == convertDmmToDdCoordinates(e.latitude, e.north)
             valid == validLatitude(latitude) /\ validLongitude(longitude)
             line == <<[latitude |-> latitude, longitude |-> longitude, valid |-> valid]>>
         IN  IF valid
             THEN [i |-> locals.i + e.processedBytes + 1, lastValidLongitude |-> longitude,
                   lastValidLatitude |-> latitude, foundValid |-> TRUE, line |-> line]
             ELSE [locals EXCEPT !.i = @ + e.processedBytes + 1, !.line = line]

(***************************************************************************)
(* Lines 164-182: the frame of the two signals is handed to the signal     *)
(* buffer, with the trace counters raised before the push and adjusted     *)
(* when the push is refused.  The result is the buffer, the counters and   *)
(* whether the frame was taken.                                            *)
(***************************************************************************)
CollectedSignal(signalId, receiveTime, value) ==
    [signalID |-> signalId, receiveTime |-> receiveTime, value |-> value]

CollectedSignalsGroup(timestamp, latitudeStartBit, longitudeStartBit, latitude, longitude) ==
    << CollectedSignal(getSignalIdFromStartBit(latitudeStartBit), timestamp, latitude),
       CollectedSignal(getSignalIdFromStartBit(longitudeStartBit), timestamp, longitude) >>

PushCollectedDataFrame(buffer, trace, collectedSignalsGroup) ==
    LET t1 == addToAtomicVariable(trace, "QUEUE_CONSUMER_TO_INSPECTION_SIGNALS", 2)
        t2 == incrementAtomicVariable(t1, "QUEUE_CONSUMER_TO_INSPECTION_DATA_FRAMES")
    IN  IF PushAccepted(buffer)
        THEN [buffer |-> [buffer EXCEPT !.frames = Append(@, collectedSignalsGroup)],
              trace |-> t2, accepted |-> TRUE]
        ELSE [buffer |-> buffer,
              trace |-> incrementAtomicVariable(
                            subtractFromAtomicVariable(
                                t2, "QUEUE_CONSUMER_TO_INSPECTION_SIGNALS", 2),
                            "QUEUE_CONSUMER_TO_INSPECTION_DATA_FRAMES"),
              accepted |-> FALSE]

(***************************************************************************)
(* Lines 80-114: init, on the configured members of the source.  A path is *)
(* a sequence of names, empty for the empty string.  quectelDetected is    *)
(* what detectQuectelDevice (lines 50-73) finds in the file system.        *)
(***************************************************************************)
DEFAULT_PATH_TO_NMEA_SOURCE == <<"dev", "ttyUSB1">>

NoFilter == [set |-> FALSE, canChannel |-> INVALID_CAN_SOURCE_NUMERIC_ID, canRawFrameId |-> 0]

\* CustomDataSource::setFilter
setFilter(canChannel, canRawFrameId) ==
    [set |-> TRUE, canChannel |-> canChannel, canRawFrameId |-> canRawFrameId]

NoInit ==
    [pathToNmeaSource |-> <<>>, canChannel |-> INVALID_CAN_SOURCE_NUMERIC_ID,
     canRawFrameId |-> 0, latitudeStartBit |-> 0, longitudeStartBit |-> 0,
     quectelDetected |-> FALSE, result |-> FALSE]

\* Mutant: the members are written before the device is looked for
init_AssignFirst(self, pathToNmeaSource, canChannel, canRawFrameId, latitudeStartBit, longitudeStartBit, quectelDetected) ==
    IF canChannel = INVALID_CAN_SOURCE_NUMERIC_ID
    THEN [self |-> self, result |-> FALSE]
    ELSE LET assigned == [self EXCEPT !.mLatitudeStartBit = latitudeStartBit,
                                      !.mLongitudeStartBit = longitudeStartBit,
                                      !.mCanChannel = canChannel,
                                      !.mCanRawFrameId = canRawFrameId]
         IN  IF pathToNmeaSource = <<>> /\ ~quectelDetected
             THEN [self |-> assigned, result |-> FALSE]
             ELSE [self |-> [assigned EXCEPT
                                !.mPathToNmeaSource =
                                    IF pathToNmeaSource = <<>>
                                    THEN DEFAULT_PATH_TO_NMEA_SOURCE ELSE pathToNmeaSource,
                                !.filter = setFilter(canChannel, canRawFrameId)],
                   result |-> TRUE]

init(self, pathToNmeaSource, canChannel, canRawFrameId, latitudeStartBit, longitudeStartBit, quectelDetected) ==
    IF canChannel = INVALID_CAN_SOURCE_NUMERIC_ID
    THEN [self |-> self, result |-> FALSE]
    ELSE IF pathToNmeaSource = <<>> /\ ~quectelDetected
    THEN [self |-> self, result |-> FALSE]
    ELSE LET path == IF pathToNmeaSource = <<>>
                     THEN DEFAULT_PATH_TO_NMEA_SOURCE ELSE pathToNmeaSource
             self1 == [self EXCEPT !.mPathToNmeaSource = path,
                                   !.mLatitudeStartBit = latitudeStartBit,
                                   !.mLongitudeStartBit = longitudeStartBit,
                                   !.mCanChannel = canChannel,
                                   !.mCanRawFrameId = canRawFrameId]
         IN  [self |-> [self1 EXCEPT !.filter = setFilter(self1.mCanChannel, self1.mCanRawFrameId)],
              result |-> TRUE]

\* The source after its constructor: the state of the extractor's runs
GpsOff ==
    /\ mBuffer = <<>>
    /\ mSignalBufferPtr = nullptr
    /\ mLatitudeStartBit = 0 /\ mLongitudeStartBit = 0
    /\ mGpggaLineCounter = 0 /\ mValidCoordinateCounter = 0
    /\ traceModule = <<>>
    /\ gpsPc = "off"
    /\ bytes = 0 /\ pollI = 0
    /\ lastValidLongitude = Finite(0) /\ lastValidLatitude = Finite(0)
    /\ foundValid = FALSE
    /\ polls = 0
    /\ lineResults = <<>>
    /\ pushLog = <<>>
    /\ mPathToNmeaSource = <<>>
    /\ mCanChannel = INVALID_CAN_SOURCE_NUMERIC_ID
    /\ mCanRawFrameId = 0
    /\ filter = NoFilter
    /\ inits = 0
    /\ initLog = NoInit

(***************************************************************************)
(* State.                                                                  *)
(***************************************************************************)
VARIABLES
    mEnabledCollectionSchemeMap,  \* the enabled schemes, in iteration order
    decoderDictionaryMap,         \* the output map of the extractor
    pc,                           \* begin, signals, rawprologue, frames, done,
                                  \* notify, updated
    i, j, k,                      \* scheme, signal and raw frame being visited
    pass,                         \* 1 or 2
    firstPassOrder,               \* the scheme order of the first pass
    firstPassMap,                 \* the output of the first pass
    dictionaryObjects,            \* protocol -> the object its map value points to
    objectsMade,                  \* the number of make_shared calls so far
    notifications,                \* the listener calls of decoderDictionaryUpdater
    delivered                     \* the non-null pointers listeners were handed

vars == <<mDecoderManifest, mEnabledCollectionSchemeMap, decoderDictionaryMap, pc, i, j, k, pass,
          firstPassOrder, firstPassMap, dictionaryObjects, objectsMade,
          notifications, delivered, gpsVars>>

\* The loop position at the head of scheme n and after: schemes without
\* signals and without raw frames are passed over.
RECURSIVE EnterScheme(_, _)
EnterScheme(schemes, n) ==
    IF n > Len(schemes) THEN [pc |-> "done", i |-> n, j |-> 0, k |-> 0]
    ELSE IF schemes[n].signals # <<>> THEN [pc |-> "signals", i |-> n, j |-> 1, k |-> 0]
    ELSE IF schemes[n].rawFrames # <<>> THEN [pc |-> "rawprologue", i |-> n, j |-> 0, k |-> 0]
    ELSE EnterScheme(schemes, n + 1)

Goto(pos) == pc' = pos.pc /\ i' = pos.i /\ j' = pos.j /\ k' = pos.k

\* The objects behind the map after a step of the extractor
Tracked ==
    LET t == TrackObjects(dictionaryObjects, objectsMade,
                          decoderDictionaryMap, decoderDictionaryMap')
    IN  dictionaryObjects' = t.objects /\ objectsMade' = t.made

Init ==
    /\ mEnabledCollectionSchemeMap \in SchemeMaps
    /\ mDecoderManifest \in Manifests(mEnabledCollectionSchemeMap)
    /\ decoderDictionaryMap = <<>>
    /\ pc = "begin" /\ i = 0 /\ j = 0 /\ k = 0
    /\ pass = 1
    /\ firstPassOrder = <<>>
    /\ firstPassMap = <<>>
    /\ dictionaryObjects = <<>>
    /\ objectsMade = 0
    /\ notifications = <<>>
    /\ delivered = {}
    /\ GpsOff

\* Lines 30-38
Begin ==
    /\ pc = "begin"
    /\ decoderDictionaryMap' = ResetDictionaryMap(decoderDictionaryMap)
    /\ Goto(EnterScheme(mEnabledCollectionSchemeMap, 1))
    /\ Tracked
    /\ UNCHANGED <<mDecoderManifest, mEnabledCollectionSchemeMap, pass, firstPassOrder, firstPassMap,
                   notifications, delivered>>
    /\ UNCHANGED gpsVars

\* Lines 42-235, one iteration
ProcessSignal ==
    /\ pc = "signals"
    /\ LET scheme == mEnabledCollectionSchemeMap[i] IN
       /\ decoderDictionaryMap' =
              ExtractorSignalStep(decoderDictionaryMap, scheme.signals[j])
       /\ IF j < Len(scheme.signals)
          THEN Goto([pc |-> "signals", i |-> i, j |-> j + 1, k |-> 0])
          ELSE IF scheme.rawFrames # <<>>
          THEN Goto([pc |-> "rawprologue", i |-> i, j |-> j, k |-> 0])
          ELSE Goto(EnterScheme(mEnabledCollectionSchemeMap, i + 1))
    /\ Tracked
    /\ UNCHANGED <<mDecoderManifest, mEnabledCollectionSchemeMap, pass, firstPassOrder, firstPassMap,
                   notifications, delivered>>
    /\ UNCHANGED gpsVars

\* Lines 238-250
EnterRawFrames ==
    /\ pc = "rawprologue"
    /\ decoderDictionaryMap' = RawFramesPrologue(decoderDictionaryMap)
    /\ Goto([pc |-> "frames", i |-> i, j |-> j, k |-> 1])
    /\ Tracked
    /\ UNCHANGED <<mDecoderManifest, mEnabledCollectionSchemeMap, pass, firstPassOrder, firstPassMap,
                   notifications, delivered>>
    /\ UNCHANGED gpsVars

\* Lines 253-291, one iteration
ProcessRawFrame ==
    /\ pc = "frames"
    /\ LET scheme == mEnabledCollectionSchemeMap[i] IN
       /\ decoderDictionaryMap' =
              ExtractorRawFrameStep(decoderDictionaryMap, scheme.rawFrames[k])
       /\ IF k < Len(scheme.rawFrames)
          THEN Goto([pc |-> "frames", i |-> i, j |-> j, k |-> k + 1])
          ELSE Goto(EnterScheme(mEnabledCollectionSchemeMap, i + 1))
    /\ Tracked
    /\ UNCHANGED <<mDecoderManifest, mEnabledCollectionSchemeMap, pass, firstPassOrder, firstPassMap,
                   notifications, delivered>>
    /\ UNCHANGED gpsVars

\* Lines 375-387, one iteration of the loop over the keys of the map; the
\* call returns after the last key
DecoderDictionaryUpdater ==
    /\ pc \in {"done", "notify"} /\ pass = 1
    /\ LET keys == UpdaterKeys(decoderDictionaryMap)
           n == IF pc = "done" THEN 1 ELSE i
       IN  IF n > Len(keys)
           THEN /\ pc' = "updated"
                /\ UNCHANGED <<i, notifications, delivered>>
           ELSE LET dictPtr == SharedPtr(ObjectOf(dictionaryObjects, keys[n]),
                                         decoderDictionaryMap[keys[n]])
                IN  /\ notifications' = notifyListeners(notifications, dictPtr, keys[n])
                    /\ delivered' = delivered \cup {d \in {dictPtr} : d.object # 0}
                    /\ i' = n + 1
                    /\ pc' = IF n = Len(keys) THEN "updated" ELSE "notify"
    /\ UNCHANGED <<mDecoderManifest, mEnabledCollectionSchemeMap, decoderDictionaryMap, j, k, pass,
                   firstPassOrder, firstPassMap, dictionaryObjects, objectsMade>>
    /\ UNCHANGED gpsVars

\* A second call of decoderDictionaryExtractor on the map of the first, with
\* the same schemes under scheme ids that iterate in some order
SecondPass ==
    /\ pc = "updated" /\ pass = 1
    /\ \E order \in Reorderings(mEnabledCollectionSchemeMap) :
          /\ mEnabledCollectionSchemeMap' = order
          /\ decoderDictionaryMap' = decoderDictionaryExtractor(decoderDictionaryMap, order)
    /\ LET reset == ResetDictionaryMap(decoderDictionaryMap)
           t1 == TrackObjects(dictionaryObjects, objectsMade, decoderDictionaryMap, reset)
           t2 == TrackObjects(t1.objects, t1.made, reset, decoderDictionaryMap')
       IN  dictionaryObjects' = t2.objects /\ objectsMade' = t2.made
    /\ firstPassOrder' = mEnabledCollectionSchemeMap
    /\ firstPassMap' = decoderDictionaryMap
    /\ pass' = 2
    /\ pc' = "done"
    /\ UNCHANGED <<mDecoderManifest, i, j, k, notifications, delivered>>
    /\ UNCHANGED gpsVars

Next ==
    \/ Begin \/ ProcessSignal \/ EnterRawFrames \/ ProcessRawFrame
    \/ DecoderDictionaryUpdater \/ SecondPass

Spec == Init /\ [][Next]_vars

(***************************************************************************)
(* IWaveGpsSource: state machine of pollData.                              *)
(***************************************************************************)
NmeaLine(time, latitude, northSouth, longitude, eastWest) ==
    GPGGA \o time \o <<",">> \o latitude \o <<",", northSouth, ",">> \o longitude
          \o <<",", eastWest, "LF">>

LineA == NmeaLine(<<"1", "2">>, <<"4", "5">>, "N", <<"9">>, "E")
LineB == NmeaLine(<<"1", "2">>, <<"3", "0">>, "S", <<"2", "0">>, "W")
LineNorthOfPole == NmeaLine(<<"1", "2">>, <<"9", "1", "0", "0">>, "N", <<"9">>, "E")
LineShortTime == NmeaLine(<<"1">>, <<"4", "5">>, "N", <<"9">>, "E")
LineNoLatitude == NmeaLine(<<"1", "2">>, <<>>, "N", <<"9">>, "E")
LineFarEast == NmeaLine(<<"1", "2">>, <<"4", "5">>, "N", <<"1", "8", "1", "0", "0">>, "E")
LineCutAfterNorth == GPGGA \o <<"1", "2", ",", "4", "5", ",", "N", ",">>
Noise == [n \in 1..(MAX_BYTES_READ_PER_POLL - 1 - Len(LineA) - Len(LineCutAfterNorth)) |-> "#"]

\* What read() can deliver: at most MAX_BYTES_READ_PER_POLL - 1 characters
NmeaReads ==
    { <<>>, GPGGA, LineA, LineB, LineNorthOfPole, LineShortTime, LineNoLatitude, LineFarEast,
      LineA \o LineB, LineA \o LineNorthOfPole, LineNorthOfPole \o LineA,
      LineCutAfterNorth, Noise \o LineA \o LineCutAfterNorth }

\* read(): the first characters of the buffer are overwritten, the rest stays
Read(buffer, data) == data \o SubSeq(buffer, Len(data) + 1, Len(buffer))

\* What may lie in memory behind mBuffer when strtod runs off its end
MemoryBehindBuffer == { <<"NUL">>, <<"9", "NUL">>, <<"9", "9", "9", "9", "9", "NUL">> }

extractorVars == <<mDecoderManifest, mEnabledCollectionSchemeMap, decoderDictionaryMap, pc, i, j, k,
                   pass, firstPassOrder, firstPassMap, dictionaryObjects, objectsMade,
                   notifications, delivered>>

\* The extractor at rest, the state of the GPS source's runs
ExtractorOff ==
    /\ mDecoderManifest = [invalidSignalIdProtocol |-> "INVALID_PROTOCOL"]
    /\ mEnabledCollectionSchemeMap = <<>>
    /\ decoderDictionaryMap = <<>>
    /\ pc = "off" /\ i = 0 /\ j = 0 /\ k = 0
    /\ pass = 1
    /\ firstPassOrder = <<>>
    /\ firstPassMap = <<>>
    /\ dictionaryObjects = <<>>
    /\ objectsMade = 0
    /\ notifications = <<>>
    /\ delivered = {}

\* After the constructor, init() and connect().  The header that declares
\* mBuffer is not at hand: the buffer starts as zero bytes or as digits.
InitGps ==
    /\ ExtractorOff
    /\ mBuffer \in {[n \in 1..MAX_BYTES_READ_PER_POLL |-> c] : c \in {"NUL", "9"}}
    /\ mSignalBufferPtr \in {nullptr, SignalBuffer(1)}
    /\ mLatitudeStartBit = 32 /\ mLongitudeStartBit = 0
    /\ mGpggaLineCounter = 0 /\ mValidCoordinateCounter = 0
    /\ traceModule = [v \in {"QUEUE_CONSUMER_TO_INSPECTION_SIGNALS",
                             "QUEUE_CONSUMER_TO_INSPECTION_DATA_FRAMES"} |-> 0]
    /\ gpsPc = "idle"
    /\ bytes = 0 /\ pollI = 0
    /\ lastValidLongitude = Finite(0) /\ lastValidLatitude = Finite(0)
    /\ foundValid = FALSE
    /\ polls = 0
    /\ lineResults = <<>>
    /\ pushLog = <<>>
    /\ mPathToNmeaSource = DEFAULT_PATH_TO_NMEA_SOURCE
    /\ mCanChannel = 0
    /\ mCanRawFrameId = 256
    /\ filter = setFilter(0, 256)
    /\ inits = 1
    /\ initLog = [pathToNmeaSource |-> <<>>, canChannel |-> 0, canRawFrameId |-> 256,
                  latitudeStartBit |-> 32, longitudeStartBit |-> 0,
                  quectelDetected |-> TRUE, result |-> TRUE]

\* Lines 125-130: read() fails and pollData returns
PollReadFails ==
    /\ gpsPc = "idle" /\ polls < MaxPolls
    /\ bytes' = -1
    /\ polls' = polls + 1
    /\ lineResults' = <<>> /\ pushLog' = <<>>
    /\ UNCHANGED <<mBuffer, mSignalBufferPtr, mLatitudeStartBit, mLongitudeStartBit,
                   mGpggaLineCounter, mValidCoordinateCounter, traceModule, gpsPc, pollI,
                   lastValidLongitude, lastValidLatitude, foundValid>>
    /\ UNCHANGED gpsConfigVars
    /\ UNCHANGED extractorVars

\* Lines 125-136: read() delivers data, the locals of the scan are set
PollRead ==
    /\ gpsPc = "idle" /\ polls < MaxPolls
    /\ \E data \in NmeaReads :
          /\ mBuffer' = Read(mBuffer, data)
          /\ bytes' = Len(data)
    /\ lastValidLongitude' = Finite(0) /\ lastValidLatitude' = Finite(0)
    /\ foundValid' = FALSE
    /\ pollI' = 0
    /\ gpsPc' = "scan"
    /\ lineResults' = <<>> /\ pushLog' = <<>>
    /\ UNCHANGED <<mSignalBufferPtr, mLatitudeStartBit, mLongitudeStartBit, mGpggaLineCounter,
                   mValidCoordinateCounter, traceModule, polls>>
    /\ UNCHANGED gpsConfigVars
    /\ UNCHANGED extractorVars

\* Lines 137-159, one iteration
ScanStep ==
    /\ gpsPc = "scan"
    /\ pollI < bytes - 7
    /\ \E behind \in MemoryBehindBuffer :
          LET r == ScanIteration(mBuffer \o behind, bytes,
                                 [i |-> pollI, lastValidLongitude |-> lastValidLongitude,
                                  lastValidLatitude |-> lastValidLatitude,
                                  foundValid |-> foundValid, line |-> <<>>])
          IN  /\ pollI' = r.i
              /\ lastValidLongitude' = r.lastValidLongitude
              /\ lastValidLatitude' = r.lastValidLatitude
              /\ foundValid' = r.foundValid
              /\ lineResults' = lineResults \o r.line
              /\ mGpggaLineCounter' = mGpggaLineCounter + Len(r.line)
    /\ UNCHANGED <<mBuffer, mSignalBufferPtr, mLatitudeStartBit, mLongitudeStartBit,
                   mValidCoordinateCounter, traceModule, gpsPc, bytes, polls, pushLog>>
    /\ UNCHANGED gpsConfigVars
    /\ UNCHANGED extractorVars

\* Lines 161-193: after the loop, the frame and the cyclic log
PollPublish ==
    /\ gpsPc = "scan"
    /\ ~(pollI < bytes - 7)
    /\ \E timerElapsed \in BOOLEAN :
          LET publish == foundValid /\ ~mSignalBufferPtr.null
              timestamp == polls
              collectedSignalsGroup ==
                  CollectedSignalsGroup(timestamp, mLatitudeStartBit, mLongitudeStartBit,
                                        lastValidLatitude, lastValidLongitude)
              p == PushCollectedDataFrame(mSignalBufferPtr, traceModule, collectedSignalsGroup)
          IN  /\ IF publish
                 THEN /\ mSignalBufferPtr' = p.buffer
                      /\ traceModule' = p.trace
                      /\ pushLog' = Append(pushLog, [frame |-> collectedSignalsGroup,
                                                     accepted |-> p.accepted])
                 ELSE UNCHANGED <<mSignalBufferPtr, traceModule, pushLog>>
              /\ IF timerElapsed
                 THEN mGpggaLineCounter' = 0 /\ mValidCoordinateCounter' = 0
                 ELSE /\ mValidCoordinateCounter' =
                            mValidCoordinateCounter + (IF publish THEN 1 ELSE 0)
                      /\ UNCHANGED mGpggaLineCounter
    /\ gpsPc' = "idle"
    /\ polls' = polls + 1
    /\ pollI' = 0
    /\ lastValidLongitude' = Finite(0) /\ lastValidLatitude' = Finite(0)
    /\ foundValid' = FALSE
    /\ UNCHANGED <<mBuffer, mLatitudeStartBit, mLongitudeStartBit, bytes, lineResults>>
    /\ UNCHANGED gpsConfigVars
    /\ UNCHANGED extractorVars

NextGps ==
    \/ PollReadFails
    \/ PollRead
    \/ ScanStep
    \/ PollPublish

SpecGps == InitGps /\ [][NextGps]_vars

(***************************************************************************)
(* IWaveGpsSource: state machine of init, called on the source as its      *)
(* constructor left it and again on what an earlier call made of it.       *)
(***************************************************************************)
MaxInits == 2

NmeaPaths == {<<>>, <<"dev", "ttyS0">>}

CanChannels == {0, 1, INVALID_CAN_SOURCE_NUMERIC_ID}

CanRawFrameIds == {256, 512}

StartBits == {<<32, 0>>, <<0, 32>>}

Self ==
    [mPathToNmeaSource |-> mPathToNmeaSource, mLatitudeStartBit |-> mLatitudeStartBit,
     mLongitudeStartBit |-> mLongitudeStartBit, mCanChannel |-> mCanChannel,
     mCanRawFrameId |-> mCanRawFrameId, filter |-> filter]

InitGpsConstructed == ExtractorOff /\ GpsOff

\* Lines 80-114.  Line 112 restarts the cyclic log timer, whose expiry the
\* polls draw freely.
IWaveGpsSourceInit ==
    /\ gpsPc = "off" /\ inits < MaxInits
    /\ \E pathToNmeaSource \in NmeaPaths, canChannel \in CanChannels,
          canRawFrameId \in CanRawFrameIds, startBits \in StartBits,
          quectelDetected \in BOOLEAN :
          LET r == init(Self, pathToNmeaSource, canChannel, canRawFrameId,
                        startBits[1], startBits[2], quectelDetected)
          IN  /\ mPathToNmeaSource' = r.self.mPathToNmeaSource
              /\ mLatitudeStartBit' = r.self.mLatitudeStartBit
              /\ mLongitudeStartBit' = r.self.mLongitudeStartBit
              /\ mCanChannel' = r.self.mCanChannel
              /\ mCanRawFrameId' = r.self.mCanRawFrameId
              /\ filter' = r.self.filter
              /\ initLog' = [pathToNmeaSource |-> pathToNmeaSource, canChannel |-> canChannel,
                             canRawFrameId |-> canRawFrameId,
                             latitudeStartBit |-> startBits[1],
                             longitudeStartBit |-> startBits[2],
                             quectelDetected |-> quectelDetected, result |-> r.result]
    /\ inits' = inits + 1
    /\ UNCHANGED <<mBuffer, mSignalBufferPtr, mGpggaLineCounter, mValidCoordinateCounter,
                   traceModule, gpsPc, bytes, pollI, lastValidLongitude, lastValidLatitude,
                   foundValid, polls, lineResults, pushLog>>
    /\ UNCHANGED extractorVars

NextGpsInit == IWaveGpsSourceInit

SpecGpsInit == InitGpsConstructed /\ [][NextGpsInit]_vars

(***************************************************************************)
(* What the properties below speak about: the references a pass has        *)
(* visited so far, read off the loop position, and the dictionaries.       *)
(***************************************************************************)
RECURSIVE SignalsOf(_)
SignalsOf(schemes) ==
    IF schemes = <<>> THEN <<>> ELSE Head(schemes).signals \o SignalsOf(Tail(schemes))

RECURSIVE RawFramesOf(_)
RawFramesOf(schemes) ==
    IF schemes = <<>> THEN <<>> ELSE Head(schemes).rawFrames \o RawFramesOf(Tail(schemes))

SchemesBefore(n) == SubSeq(mEnabledCollectionSchemeMap, 1, n - 1)

ProcessedSignals ==
    CASE pc = "begin" -> <<>>
      [] pc = "signals" ->
            SignalsOf(SchemesBefore(i)) \o SubSeq(mEnabledCollectionSchemeMap[i].signals, 1, j - 1)
      [] pc \in {"rawprologue", "frames"} -> SignalsOf(SchemesBefore(i + 1))
      [] OTHER -> SignalsOf(mEnabledCollectionSchemeMap)

ProcessedRawFrames ==
    CASE pc = "begin" -> <<>>
      [] pc \in {"signals", "rawprologue"} -> RawFramesOf(SchemesBefore(i))
      [] pc = "frames" ->
            RawFramesOf(SchemesBefore(i)) \o SubSeq(mEnabledCollectionSchemeMap[i].rawFrames, 1, k - 1)
      [] OTHER -> RawFramesOf(mEnabledCollectionSchemeMap)

Range(seq) == {seq[n] : n \in 1..Len(seq)}

ProtocolOfRef(origId) == getNetworkProtocol(ResolveSignal(origId).signalId)

\* A CAN signal reference is accepted when its interface has a channel
AcceptedCan(origId) ==
    /\ ProtocolOfRef(origId) = "RAW_SOCKET"
    /\ getChannelNumericID(getCANFrameAndInterfaceID(ResolveSignal(origId).signalId)[2])
          # INVALID_CAN_SOURCE_NUMERIC_ID

AcceptedObd(origId) == ProtocolOfRef(origId) = "OBD"

CanKeyOfRef(origId) ==
    LET fi == getCANFrameAndInterfaceID(ResolveSignal(origId).signalId)
    IN  <<getChannelNumericID(fi[2]), fi[1]>>

DictOf(m, protocol) == IF Has(m, protocol) THEN m[protocol] ELSE NullDict

CanMethodsOf(m, protocol) == DictOf(m, protocol).canMessageDecoderMethod

EntryKeys(cm) == UNION {{<<ch, fr>> : fr \in DOMAIN cm[ch]} : ch \in DOMAIN cm}

InterfaceOfChannel(ch) ==
    CHOOSE name \in {"can0", "can1"} : getChannelNumericID(name) = ch

(***************************************************************************)
(* C1.  When decoderDictionaryExtractor has returned, the output map has a *)
(* key for every protocol of SUPPORTED_NETWORK_PROTOCOL, whatever the      *)
(* schemes; the value is the null dictionary for every protocol that no    *)
(* signal reference resolves to (and, for RAW_SOCKET, no raw frame list    *)
(* asks for).                                                              *)
(***************************************************************************)
ProtocolReferenced(protocol) ==
    \/ \E s \in Range(SignalsOf(mEnabledCollectionSchemeMap)) : ProtocolOfRef(s) = protocol
    \/ protocol = "RAW_SOCKET" /\ RawFramesOf(mEnabledCollectionSchemeMap) # <<>>

C1_EveryProtocolIsAKey ==
    pc = "done" =>
        \A protocol \in SUPPORTED_NETWORK_PROTOCOL :
            /\ Has(decoderDictionaryMap, protocol)
            /\ ~ProtocolReferenced(protocol) => decoderDictionaryMap[protocol] = NullDict

C1_Witness ==
    /\ pc = "done"
    /\ DictOf(decoderDictionaryMap, "OBD").kind = "can"
    /\ DictOf(decoderDictionaryMap, "RAW_SOCKET") = NullDict
    /\ Has(decoderDictionaryMap, "COMPLEX_DATA")
    /\ ~ProtocolReferenced("RAW_SOCKET")

(***************************************************************************)
(* C2.  At the end of a pass the collect type of every RAW_SOCKET entry is *)
(* decided by membership alone: DECODE when an accepted CAN signal of some *)
(* scheme maps to the frame and no scheme lists it raw, RAW when only raw  *)
(* lists name it, RAW_AND_DECODE when both do, in one scheme or in two.    *)
(***************************************************************************)
DecodedKeys == {CanKeyOfRef(s) : s \in {x \in Range(SignalsOf(mEnabledCollectionSchemeMap)) : AcceptedCan(x)}}

RawKeys ==
    {<<getChannelNumericID(f.interfaceID), f.frameID>> :
        f \in {x \in Range(RawFramesOf(mEnabledCollectionSchemeMap)) :
                 getChannelNumericID(x.interfaceID) # INVALID_CAN_SOURCE_NUMERIC_ID}}

ExpectedCollectType(key) ==
    IF key \in DecodedKeys /\ key \in RawKeys THEN "RAW_AND_DECODE"
    ELSE IF key \in DecodedKeys THEN "DECODE"
    ELSE IF key \in RawKeys THEN "RAW"
    ELSE "NONE"

C2_CollectTypeByMembership ==
    pc = "done" =>
        LET cm == CanMethodsOf(decoderDictionaryMap, "RAW_SOCKET") IN
        \A key \in EntryKeys(cm) :
            cm[key[1]][key[2]].collectType = ExpectedCollectType(key)

\* signal and raw frame of the same frame in two different schemes
C2_Witness ==
    /\ pc = "done" /\ pass = 1
    /\ Len(mEnabledCollectionSchemeMap) = 2
    /\ mEnabledCollectionSchemeMap[1].rawFrames = <<>>
    /\ mEnabledCollectionSchemeMap[2].signals = <<>>
    /\ LET cm == CanMethodsOf(decoderDictionaryMap, "RAW_SOCKET") IN
       \E key \in EntryKeys(cm) : cm[key[1]][key[2]].collectType = "RAW_AND_DECODE"

(***************************************************************************)
(* C3.  Within a pass no merge step weakens or removes an entry of the     *)
(* RAW_SOCKET or OBD dictionary: the entry stays, and its collect type     *)
(* stays the same or becomes RAW_AND_DECODE (never RAW_AND_DECODE to       *)
(* another type, DECODE to RAW or RAW to DECODE).                          *)
(***************************************************************************)
CollectTypeLeq(a, b) == a = b \/ b = "RAW_AND_DECODE"

EntriesKeptOrUpgraded(cm, cmNext) ==
    \A key \in EntryKeys(cm) :
        /\ key \in EntryKeys(cmNext)
        /\ CollectTypeLeq(cm[key[1]][key[2]].collectType,
                          cmNext[key[1]][key[2]].collectType)

C3_CollectTypeMonotonic ==
    [][ (pc # "begin" /\ pass' = pass) =>
          \A protocol \in {"RAW_SOCKET", "OBD"} :
              EntriesKeptOrUpgraded(CanMethodsOf(decoderDictionaryMap, protocol),
                                    CanMethodsOf(decoderDictionaryMap', protocol)) ]_vars

\* a signal is about to be merged into a frame whose entry is RAW_AND_DECODE
C3_Witness ==
    /\ pc = "signals"
    /\ AcceptedCan(mEnabledCollectionSchemeMap[i].signals[j])
    /\ LET cm == CanMethodsOf(decoderDictionaryMap, "RAW_SOCKET")
           key == CanKeyOfRef(mEnabledCollectionSchemeMap[i].signals[j])
       IN  key \in EntryKeys(cm) /\ cm[key[1]][key[2]].collectType = "RAW_AND_DECODE"

(***************************************************************************)
(* C4.  In every state of a pass, a RAW_SOCKET entry of type DECODE or     *)
(* RAW_AND_DECODE carries the manifest's message format of its frame and   *)
(* interface, and an entry of type RAW carries the default format.         *)
(***************************************************************************)
C4_FormatFollowsCollectType ==
    LET cm == CanMethodsOf(decoderDictionaryMap, "RAW_SOCKET") IN
    \A key \in EntryKeys(cm) :
        LET entry == cm[key[1]][key[2]] IN
        IF entry.collectType = "RAW"
        THEN entry.format = DefaultCANMessageFormat
        ELSE entry.format = getCANMessageFormat(key[2], InterfaceOfChannel(key[1]))

\* the RAW-then-signal path: the raw frame came first, the signal upgraded it
C4_Witness ==
    /\ pc = "done" /\ pass = 1
    /\ Len(mEnabledCollectionSchemeMap) = 2
    /\ mEnabledCollectionSchemeMap[1].signals = <<>>
    /\ mEnabledCollectionSchemeMap[2].rawFrames = <<>>
    /\ LET cm == CanMethodsOf(decoderDictionaryMap, "RAW_SOCKET") IN
       \E key \in EntryKeys(cm) :
          /\ cm[key[1]][key[2]].collectType = "RAW_AND_DECODE"
          /\ cm[key[1]][key[2]].format.mSignals # <<>>

(***************************************************************************)
(* C5.  The resolved id of every accepted CAN or OBD signal reference the  *)
(* pass has visited is in signalIDsToCollect of its dictionary (from the   *)
(* step that visits it to the end of the pass).                            *)
(***************************************************************************)
C5_AcceptedSignalsAreCollected ==
    \A s \in Range(ProcessedSignals) :
        /\ AcceptedCan(s) =>
              ResolveSignal(s).signalId \in
                  DictOf(decoderDictionaryMap, "RAW_SOCKET").signalIDsToCollect
        /\ AcceptedObd(s) =>
              ResolveSignal(s).signalId \in
                  DictOf(decoderDictionaryMap, "OBD").signalIDsToCollect

\* two signals of one frame: the second finds the entry of the first
C5_Witness ==
    /\ pc = "done"
    /\ {1, 2} \subseteq DictOf(decoderDictionaryMap, "RAW_SOCKET").signalIDsToCollect

(***************************************************************************)
(* C6.  In every state of a pass, every channel that is a key of the       *)
(* RAW_SOCKET or OBD dictionary has at least one frame or PID under it.    *)
(***************************************************************************)
C6_NoEmptyChannel ==
    \A protocol \in {"RAW_SOCKET", "OBD"} :
        LET cm == CanMethodsOf(decoderDictionaryMap, protocol) IN
        \A ch \in DOMAIN cm : DOMAIN cm[ch] # {}

\* a raw frame of an unknown interface was skipped after a channel was made
C6_Witness ==
    /\ pc = "done" /\ pass = 1
    /\ DOMAIN CanMethodsOf(decoderDictionaryMap, "RAW_SOCKET") # {}
    /\ \E f \in Range(ProcessedRawFrames) :
          getChannelNumericID(f.interfaceID) = INVALID_CAN_SOURCE_NUMERIC_ID

(***************************************************************************)
(* C7.  Determinism: a second pass over the same enabled-scheme map (same  *)
(* schemes, same iteration order), manifest and translator leaves an       *)
(* output map equal to that of the first pass, keys, dictionaries, entries *)
(* and list orders included, also when the caller hands in the map the     *)
(* first pass filled.                                                      *)
(***************************************************************************)
C7_SameInputsSameOutput ==
    (pass = 2 /\ mEnabledCollectionSchemeMap = firstPassOrder) =>
        decoderDictionaryMap = firstPassMap

\* both passes appended to the same PID list and filled a complex entry or
\* a CAN entry
C7_Witness ==
    /\ pass = 2 /\ mEnabledCollectionSchemeMap = firstPassOrder
    /\ Len(mEnabledCollectionSchemeMap) = 2
    /\ LET cm == CanMethodsOf(firstPassMap, "OBD") IN
       \E key \in EntryKeys(cm) : Len(cm[key[1]][key[2]].format.mSignals) >= 2

(***************************************************************************)
(* C8.  Order independence.  For two iteration orders of the same schemes  *)
(* that show every complex (interface, message) the same first root type:  *)
(* the original statement is that the whole output map is the same.        *)
(***************************************************************************)
AcceptedComplex(origId) ==
    /\ ProtocolOfRef(origId) = "COMPLEX_DATA"
    /\ ResolveSignal(origId).signalId # INVALID_SIGNAL_ID
    /\ getComplexSignalDecoderFormat(ResolveSignal(origId).signalId).mInterfaceId # ""

ComplexKeyOfRef(origId) ==
    LET info == getComplexSignalDecoderFormat(ResolveSignal(origId).signalId)
    IN  <<info.mInterfaceId, info.mMessageId>>

FirstRootOf(schemes, key) ==
    LET refs == SelectSeq(SignalsOf(schemes),
                          LAMBDA s : AcceptedComplex(s) /\ ComplexKeyOfRef(s) = key)
    IN  IF refs = <<>> THEN 0
        ELSE getComplexSignalDecoderFormat(ResolveSignal(refs[1]).signalId).mRootTypeId

SameFirstRoot ==
    \A s \in {x \in Range(SignalsOf(firstPassOrder)) : AcceptedComplex(x)} :
        FirstRootOf(firstPassOrder, ComplexKeyOfRef(s))
            = FirstRootOf(mEnabledCollectionSchemeMap, ComplexKeyOfRef(s))

SeqToBag(seq) == [x \in Range(seq) |-> Cardinality({n \in 1..Len(seq) : seq[n] = x})]

ObdOrderFreeView(d) ==
    [d EXCEPT !.canMessageDecoderMethod =
        [ch \in DOMAIN @ |->
            [pid \in DOMAIN @[ch] |->
                [collectType |-> @[ch][pid].collectType,
                 mMessageID |-> @[ch][pid].format.mMessageID,
                 mSignals |-> SeqToBag(@[ch][pid].format.mSignals)]]]]

ComplexOrderFreeView(d) ==
    [d EXCEPT !.complexMessageDecoderMethod =
        [iface \in DOMAIN @ |->
            [msg \in DOMAIN @[iface] |->
                [@[iface][msg] EXCEPT !.mSignalId = 0]]]]

OrderFreeView(m) ==
    [p \in DOMAIN m |->
        IF p = "OBD" THEN ObdOrderFreeView(m[p])
        ELSE IF p = "COMPLEX_DATA" THEN ComplexOrderFreeView(m[p])
        ELSE m[p]]

PidOfRef(origId) == getPIDSignalDecoderFormat(ResolveSignal(origId).signalId).mPID

ExpectedObdSignals(pid) ==
    LET refs == SelectSeq(ProcessedSignals, LAMBDA s : AcceptedObd(s) /\ PidOfRef(s) = pid)
    IN  [n \in 1..Len(refs) |->
            OBDSignalFormat(refs[n],
                            getPIDSignalDecoderFormat(ResolveSignal(refs[n]).signalId))]

C9_ObdSignalsMergedInOrder ==
    LET cm == CanMethodsOf(decoderDictionaryMap, "OBD")
        pids == {PidOfRef(s) : s \in {x \in Range(ProcessedSignals) : AcceptedObd(x)}}
    IN  /\ DOMAIN cm \subseteq {0}
        /\ pids # {} => (Has(cm, 0) /\ DOMAIN cm[0] = pids)
        /\ \A pid \in pids : cm[0][pid].format.mSignals = ExpectedObdSignals(pid)

\* three records under one PID, from two schemes and two different signals
C9_Witness ==
    /\ pc = "done" /\ pass = 1
    /\ Len(mEnabledCollectionSchemeMap) = 2
    /\ LET cm == CanMethodsOf(decoderDictionaryMap, "OBD") IN
       /\ Has(cm, 0) /\ Has(cm[0], 12)
       /\ Len(cm[0][12].format.mSignals) >= 3
       /\ cm[0][12].format.mSignals[1].mSignalID # cm[0][12].format.mSignals[2].mSignalID

(***************************************************************************)
(* C10.  The claim: every record of an OBD entry holds, for the PID        *)
(* decoder format of its signal, first_bit_position = start_byte*8 +       *)
(* bit_right_shift and size_in_bits = (byte_length - 1)*8 +                *)
(* bit_mask_length as exact integers, factor = scaling, offset = offset.   *)
(***************************************************************************)
C10_ExactBitFields ==
    LET cm == CanMethodsOf(decoderDictionaryMap, "OBD") IN
    \A key \in EntryKeys(cm) :
        LET signals == cm[key[1]][key[2]].format.mSignals IN
        \A n \in 1..Len(signals) :
            LET f == getPIDSignalDecoderFormat(ResolveSignal(signals[n].mSignalID).signalId)
            IN  /\ signals[n].mFirstBitPosition = f.mStartByte * 8 + f.mBitRightShift
                /\ signals[n].mSizeInBits = (f.mByteLength - 1) * 8 + f.mBitMaskLength
                /\ signals[n].mFactor = f.mScaling
                /\ signals[n].mOffset = f.mOffset

(***************************************************************************)
(* C11.  The claim: the entry of a PID holds message_id = PID and          *)
(* size_in_bytes = the expected response length the manifest reports for   *)
(* the first accepted signal of that PID, whatever that length is; signals *)
(* of the same PID visited later change neither.                           *)
(***************************************************************************)
FirstObdRefOf(pid) ==
    SelectSeq(ProcessedSignals, LAMBDA s : AcceptedObd(s) /\ PidOfRef(s) = pid)[1]

C11_PidEntryFromFirstSignal ==
    LET cm == CanMethodsOf(decoderDictionaryMap, "OBD") IN
    \A key \in EntryKeys(cm) :
        LET first == getPIDSignalDecoderFormat(ResolveSignal(FirstObdRefOf(key[2])).signalId)
        IN  /\ cm[key[1]][key[2]].format.mMessageID = key[2]
            /\ cm[key[1]][key[2]].format.mSizeInBytes = first.mPidResponseLength

\* The part of C11 the code keeps: the response length modulo 2^8
C11_PidEntryFromFirstSignalMod256 ==
    LET cm == CanMethodsOf(decoderDictionaryMap, "OBD") IN
    \A key \in EntryKeys(cm) :
        LET first == getPIDSignalDecoderFormat(ResolveSignal(FirstObdRefOf(key[2])).signalId)
        IN  /\ cm[key[1]][key[2]].format.mMessageID = key[2]
            /\ cm[key[1]][key[2]].format.mSizeInBytes = first.mPidResponseLength % 256

(***************************************************************************)
(* C12.  First writer wins for complex entries: at every point of a pass,  *)
(* the entry of an (interface, message) holds the parent signal id and the *)
(* root type of the first accepted reference visited, and the type map     *)
(* traversed from that root; references visited later, with another parent *)
(* id or another root type, change none of the three.                      *)
(***************************************************************************)
ComplexMethodsOf(m) == DictOf(m, "COMPLEX_DATA").complexMessageDecoderMethod

ComplexEntryKeys(cmm) ==
    UNION {{<<iface, msg>> : msg \in DOMAIN cmm[iface]} : iface \in DOMAIN cmm}

ComplexRefsOf(key) ==
    SelectSeq(ProcessedSignals, LAMBDA s : AcceptedComplex(s) /\ ComplexKeyOfRef(s) = key)

C12_ComplexFirstWriterWins ==
    LET cmm == ComplexMethodsOf(decoderDictionaryMap) IN
    \A key \in ComplexEntryKeys(cmm) :
        LET first == ResolveSignal(ComplexRefsOf(key)[1]).signalId
            root == getComplexSignalDecoderFormat(first).mRootTypeId
            entry == cmm[key[1]][key[2]]
        IN  /\ entry.mSignalId = first
            /\ entry.mRootTypeId = root
            /\ entry.mComplexTypeMap = TraverseComplexTypes(<<root>>, MAX_COMPLEX_TYPES, <<>>)

\* an entry that a later reference with another parent id and another root
\* type has been merged into
C12_Witness ==
    LET cmm == ComplexMethodsOf(decoderDictionaryMap) IN
    \E key \in ComplexEntryKeys(cmm) :
        LET refs == ComplexRefsOf(key) IN
        \E n \in 2..Len(refs) :
            /\ ResolveSignal(refs[n]).signalId # ResolveSignal(refs[1]).signalId
            /\ getComplexSignalDecoderFormat(ResolveSignal(refs[n]).signalId).mRootTypeId
                  # cmm[key[1]][key[2]].mRootTypeId

(***************************************************************************)
(* C13.  At every point of a pass the signal_paths list of every complex   *)
(* entry is sorted ascending by path (lexicographically), then by partial  *)
(* signal id: no element is less than the one before it, equal elements    *)
(* included.                                                               *)
(***************************************************************************)
IsSortedSignalPaths(paths) ==
    \A n \in 1..(Len(paths) - 1) : ~SignalPathLess(paths[n + 1], paths[n])

C13_SignalPathsSorted ==
    LET cmm == ComplexMethodsOf(decoderDictionaryMap) IN
    \A key \in ComplexEntryKeys(cmm) : IsSortedSignalPaths(cmm[key[1]][key[2]].mSignalPaths)

PathRecordOfRef(origId) ==
    [mSignalPath |-> ResolveSignal(origId).signalPath, mPartialSignalID |-> origId]

PathRefsOf(key) ==
    SelectSeq(ComplexRefsOf(key), LAMBDA s : ResolveSignal(s).signalPath # <<>>)

\* a list whose elements were not inserted in ascending order
C13_Witness ==
    LET cmm == ComplexMethodsOf(decoderDictionaryMap) IN
    \E key \in ComplexEntryKeys(cmm) :
        LET paths == cmm[key[1]][key[2]].mSignalPaths
            refs == PathRefsOf(key)
        IN  /\ Len(paths) >= 2
            /\ Len(refs) = Len(paths)
            /\ \E n \in 1..Len(paths) : paths[n] # PathRecordOfRef(refs[n])

(***************************************************************************)
(* C14.  At every point of a pass, the complex_type_map of every complex   *)
(* entry holds at most MAX_COMPLEX_TYPES types, whatever the type graph of *)
(* the manifest: cyclic, or with more reachable types than the budget.     *)
(***************************************************************************)
C14_TypeMapBounded ==
    LET cmm == ComplexMethodsOf(decoderDictionaryMap) IN
    \A key \in ComplexEntryKeys(cmm) :
        Cardinality(DOMAIN cmm[key[1]][key[2]].mComplexTypeMap) <= MAX_COMPLEX_TYPES

\* an entry whose root type reaches more types than the budget, cut at the
\* budget
C14_Witness ==
    LET cmm == ComplexMethodsOf(decoderDictionaryMap) IN
    \E key \in ComplexEntryKeys(cmm) :
        LET entry == cmm[key[1]][key[2]] IN
        /\ Cardinality(DOMAIN entry.mComplexTypeMap) = MAX_COMPLEX_TYPES
        /\ \E member \in Range(getComplexDataType(entry.mRootTypeId).mOrderedTypeIds) :
              /\ getComplexDataType(member).kind # "InvalidComplexVariant"
              /\ ~Has(entry.mComplexTypeMap, member)

(***************************************************************************)
(* C15.  The claim: when the root type of a complex entry reaches at most  *)
(* MAX_COMPLEX_TYPES distinct valid types in the manifest's type graph     *)
(* (through array element types and struct member types), the entry's      *)
(* complex_type_map holds all of them, with their manifest definitions.    *)
(***************************************************************************)
ComplexTypeIds == {1, 2, 3, 4, 5, 6, 7, 8, 9, 10, 13, 14, 15}

ReferencedTypes(c) ==
    LET t == getComplexDataType(c)
    IN  IF t.kind = "ComplexArray" THEN {t.mRepeatedTypeId}
        ELSE IF t.kind = "ComplexStruct" THEN Range(t.mOrderedTypeIds)
        ELSE {}

IsValidType(c) == getComplexDataType(c).kind # "InvalidComplexVariant"

RECURSIVE ReachableFrom(_, _)
ReachableFrom(seen, n) ==
    IF n = 0 THEN seen
    ELSE ReachableFrom(seen \cup {c \in UNION {ReferencedTypes(s) : s \in seen} : IsValidType(c)},
                       n - 1)

\* the valid types reachable from a root, the root included when valid
ReachableTypes(root) ==
    ReachableFrom({c \in {root} : IsValidType(c)}, Cardinality(ComplexTypeIds))

C15_TypeMapIsClosure ==
    LET cmm == ComplexMethodsOf(decoderDictionaryMap) IN
    \A key \in ComplexEntryKeys(cmm) :
        LET entry == cmm[key[1]][key[2]]
            reachable == ReachableTypes(entry.mRootTypeId)
        IN  Cardinality(reachable) <= MAX_COMPLEX_TYPES =>
                entry.mComplexTypeMap = [c \in reachable |-> getComplexDataType(c)]

(***************************************************************************)
(* C16.  At every point of a pass, and so at its end, mCollectRaw of a     *)
(* complex entry is TRUE exactly when some accepted reference to its       *)
(* (interface, message) visited so far had an empty path: a full signal    *)
(* id, or a partial id whose table entry has an empty path.  A reference   *)
(* visited later never sets it back to FALSE.                              *)
(***************************************************************************)
C16_CollectRawIffEmptyPath ==
    LET cmm == ComplexMethodsOf(decoderDictionaryMap) IN
    \A key \in ComplexEntryKeys(cmm) :
        cmm[key[1]][key[2]].mCollectRaw
            = (\E s \in Range(ComplexRefsOf(key)) : ResolveSignal(s).signalPath = <<>>)

\* the whole signal was asked for first, then a part of it
C16_Witness ==
    LET cmm == ComplexMethodsOf(decoderDictionaryMap) IN
    \E key \in ComplexEntryKeys(cmm) :
        LET refs == ComplexRefsOf(key) IN
        /\ Len(refs) >= 2
        /\ ResolveSignal(refs[1]).signalPath = <<>>
        /\ ResolveSignal(refs[Len(refs)]).signalPath # <<>>
        /\ cmm[key[1]][key[2]].mCollectRaw

\* the whole signal asked for through a partial id with an empty path only
C16_WitnessPartial ==
    LET cmm == ComplexMethodsOf(decoderDictionaryMap) IN
    /\ \E key \in ComplexEntryKeys(cmm) :
          /\ cmm[key[1]][key[2]].mCollectRaw
          /\ \A s \in Range(ComplexRefsOf(key)) : IsPartial(s)

(***************************************************************************)
(* C17.  At every point of a pass, and so at its end, the signal_paths of  *)
(* a complex entry hold one element (resolved path, original partial id)   *)
(* for each accepted reference with a non-empty path to its (interface,    *)
(* message), over all schemes and repeated references counted as often as  *)
(* they occur, and nothing else; the entry's mSignalId is a resolved       *)
(* parent id, never the partial id.                                        *)
(***************************************************************************)
ExpectedSignalPaths(key) ==
    LET refs == PathRefsOf(key)
    IN  [n \in 1..Len(refs) |-> PathRecordOfRef(refs[n])]

C17_OnePathPerReference ==
    LET cmm == ComplexMethodsOf(decoderDictionaryMap) IN
    \A key \in ComplexEntryKeys(cmm) :
        LET entry == cmm[key[1]][key[2]] IN
        /\ SeqToBag(entry.mSignalPaths) = SeqToBag(ExpectedSignalPaths(key))
        /\ Len(entry.mSignalPaths) = Len(PathRefsOf(key))
        /\ ~IsPartial(entry.mSignalId)
        /\ entry.mSignalId \in {ResolveSignal(s).signalId : s \in Range(ComplexRefsOf(key))}

\* an entry created through a partial id, with two paths and one reference
\* to the whole signal
C17_Witness ==
    LET cmm == ComplexMethodsOf(decoderDictionaryMap) IN
    \E key \in ComplexEntryKeys(cmm) :
        /\ IsPartial(ComplexRefsOf(key)[1])
        /\ Len(cmm[key[1]][key[2]].mSignalPaths) = 2
        /\ Len(ComplexRefsOf(key)) = 3

(***************************************************************************)
(* C18.  Notifier totality: when a call of decoderDictionaryUpdater has    *)
(* returned, every registered listener has been called exactly once for    *)
(* every protocol key of the output map, with the dictionary pointer the   *)
(* map holds for that key (null for a protocol nothing uses), and it has   *)
(* been called for nothing else.                                           *)
(***************************************************************************)
CallsOf(listener, protocol) ==
    {n \in 1..Len(notifications) :
        notifications[n].listener = listener /\ notifications[n].protocol = protocol}

C18_EveryListenerOncePerProtocol ==
    pc = "updated" =>
        /\ \A n \in 1..Len(notifications) :
              /\ notifications[n].listener \in Range(mListeners)
              /\ Has(decoderDictionaryMap, notifications[n].protocol)
        /\ \A listener \in Range(mListeners) : \A protocol \in DOMAIN decoderDictionaryMap :
              /\ Cardinality(CallsOf(listener, protocol)) = 1
              /\ \A n \in CallsOf(listener, protocol) :
                    /\ notifications[n].dictionary.content = decoderDictionaryMap[protocol]
                    /\ notifications[n].dictionary.object
                          = ObjectOf(dictionaryObjects, protocol)
                    /\ (notifications[n].dictionary.object = 0)
                          = (decoderDictionaryMap[protocol].kind = "null")

\* the call has returned, with a dictionary for one protocol and none for
\* another
C18_Witness ==
    /\ pc = "updated"
    /\ \E p \in DOMAIN decoderDictionaryMap : decoderDictionaryMap[p].kind # "null"
    /\ \E p \in DOMAIN decoderDictionaryMap : decoderDictionaryMap[p].kind = "null"
    /\ Len(notifications) = Len(mListeners) * Cardinality(DOMAIN decoderDictionaryMap)

(***************************************************************************)
(* C19.  Totality: whatever the enabled schemes and the manifest hold      *)
(* (unknown partial ids, invalid or unknown protocols, unknown interfaces, *)
(* invalid type ids, cyclic type graphs), every step of a running pass     *)
(* brings it one statement closer to its end: the number of loop           *)
(* iterations left, counted from the scheme lists, goes down with every    *)
(* step, the pass is at its end exactly when none is left, and the output  *)
(* map is then well formed: every value is null or a dictionary of the     *)
(* kind of its protocol, every CAN or OBD entry has a collect type, every  *)
(* complex entry has its ids set and holds valid types only.               *)
(***************************************************************************)
WellFormedDictionary(protocol, d) ==
    \/ d.kind = "null" /\ d = NullDict
    \/ /\ d.kind = "can" /\ protocol \in {"RAW_SOCKET", "OBD"}
       /\ d.complexMessageDecoderMethod = <<>>
       /\ \A key \in EntryKeys(d.canMessageDecoderMethod) :
             d.canMessageDecoderMethod[key[1]][key[2]].collectType
                 \in {"RAW", "DECODE", "RAW_AND_DECODE"}
    \/ /\ d.kind = "complex" /\ protocol = "COMPLEX_DATA"
       /\ d.canMessageDecoderMethod = <<>>
       /\ \A key \in ComplexEntryKeys(d.complexMessageDecoderMethod) :
             LET entry == d.complexMessageDecoderMethod[key[1]][key[2]] IN
             /\ entry.mSignalId # INVALID_SIGNAL_ID
             /\ \A c \in DOMAIN entry.mComplexTypeMap :
                   entry.mComplexTypeMap[c] = getComplexDataType(c) /\ IsValidType(c)

WellFormedMap(m) ==
    /\ SUPPORTED_NETWORK_PROTOCOL \subseteq DOMAIN m
    /\ \A protocol \in DOMAIN m : WellFormedDictionary(protocol, m[protocol])

Running == pc \in {"begin", "signals", "rawprologue", "frames"}

\* the loop iterations a scheme takes: its signals, and the raw frame block
\* with its prologue when it has raw frames
RawFrameSteps(scheme) == IF scheme.rawFrames = <<>> THEN 0 ELSE 1 + Len(scheme.rawFrames)

RECURSIVE SchemeSteps(_)
SchemeSteps(schemes) ==
    IF schemes = <<>> THEN 0
    ELSE Len(Head(schemes).signals) + RawFrameSteps(Head(schemes)) + SchemeSteps(Tail(schemes))

SchemesAfter(n) ==
    SubSeq(mEnabledCollectionSchemeMap, n + 1, Len(mEnabledCollectionSchemeMap))

StepsLeft ==
    CASE pc = "begin" -> 1 + SchemeSteps(mEnabledCollectionSchemeMap)
      [] pc = "signals" ->
            (Len(mEnabledCollectionSchemeMap[i].signals) - j + 1)
            + RawFrameSteps(mEnabledCollectionSchemeMap[i]) + SchemeSteps(SchemesAfter(i))
      [] pc = "rawprologue" ->
            RawFrameSteps(mEnabledCollectionSchemeMap[i]) + SchemeSteps(SchemesAfter(i))
      [] pc = "frames" ->
            (Len(mEnabledCollectionSchemeMap[i].rawFrames) - k + 1)
            + SchemeSteps(SchemesAfter(i))
      [] OTHER -> 0

PassAdvances ==
    Running =>
        /\ StepsLeft' < StepsLeft
        /\ StepsLeft' >= 0
        /\ pc' \in {"signals", "rawprologue", "frames", "done"}
        /\ (pc' = "done") = (StepsLeft' = 0)
        /\ pc' = "done" => WellFormedMap(decoderDictionaryMap')

C19_PassEndsWellFormed == [][PassAdvances]_vars

\* the end of a pass over an unknown partial id, a complex signal without
\* interface and a complex signal
C19_Witness ==
    /\ pc = "done" /\ pass = 1
    /\ {22, 132} \subseteq Range(SignalsOf(mEnabledCollectionSchemeMap))
    /\ DictOf(decoderDictionaryMap, "COMPLEX_DATA").kind = "complex"

\* the end of a pass over a cyclic type graph with an invalid member
C19_WitnessCyclic ==
    /\ pc = "done" /\ pass = 1
    /\ \E key \in ComplexEntryKeys(ComplexMethodsOf(decoderDictionaryMap)) :
          ComplexMethodsOf(decoderDictionaryMap)[key[1]][key[2]].mRootTypeId = 5

(***************************************************************************)
(* C20.  Published dictionaries are immutable: a dictionary object that    *)
(* decoderDictionaryUpdater has handed to the listeners is never modified  *)
(* by a later extraction pass.  Whenever a value of the map points to a    *)
(* delivered object, the object still has the content it was delivered     *)
(* with, and the dictionaries of a later pass are new objects.             *)
(***************************************************************************)
DeliveredObjects == {d.object : d \in delivered}

C20_PublishedDictionariesImmutable ==
    /\ \A d \in delivered : \A protocol \in DOMAIN decoderDictionaryMap :
          ObjectOf(dictionaryObjects, protocol) = d.object
              => decoderDictionaryMap[protocol] = d.content
    /\ pass = 2 =>
          \A protocol \in DOMAIN decoderDictionaryMap :
              ObjectOf(dictionaryObjects, protocol) \notin DeliveredObjects

\* after a later pass the map holds, for a protocol whose dictionary was
\* delivered, another object with another content
C20_Witness ==
    /\ pass = 2
    /\ \E d \in delivered : \E protocol \in DOMAIN decoderDictionaryMap :
          /\ firstPassMap[protocol] = d.content
          /\ decoderDictionaryMap[protocol].kind # "null"
          /\ decoderDictionaryMap[protocol] # d.content
          /\ ObjectOf(dictionaryObjects, protocol) # d.object

(***************************************************************************)
(* C21.  The claim: a signal reference with the partial-signal bit set     *)
(* that its scheme's partial-signal table lacks is skipped.  The step that *)
(* visits it leaves the signal ids, the frame and PID entries and the      *)
(* complex entries of every dictionary as they were, whatever protocol the *)
(* manifest reports for INVALID_SIGNAL_ID, and the loop goes on with the   *)
(* next signal of the scheme.                                              *)
(***************************************************************************)
AtUnknownPartialId ==
    /\ pc = "signals"
    /\ ResolveSignal(mEnabledCollectionSchemeMap[i].signals[j]).signalId = INVALID_SIGNAL_ID

DictionaryContents(m) ==
    [protocol \in SUPPORTED_NETWORK_PROTOCOL |->
        [signalIDsToCollect |-> DictOf(m, protocol).signalIDsToCollect,
         canMessageDecoderMethod |-> DictOf(m, protocol).canMessageDecoderMethod,
         complexMessageDecoderMethod |-> DictOf(m, protocol).complexMessageDecoderMethod]]

UnknownPartialIdSkipped ==
    AtUnknownPartialId =>
        /\ DictionaryContents(decoderDictionaryMap') = DictionaryContents(decoderDictionaryMap)
        /\ j < Len(mEnabledCollectionSchemeMap[i].signals) =>
              (pc' = "signals" /\ i' = i /\ j' = j + 1)

C21_UnknownPartialIdSkipped == [][UnknownPartialIdSkipped]_vars

(***************************************************************************)
(* C22.  The claim: a signal whose protocol the manifest reports as        *)
(* INVALID_PROTOCOL, or as a tag the extractor has no branch for, is       *)
(* skipped, and the step that visits it leaves the output map exactly as   *)
(* it was: the same protocol keys and the same dictionaries.               *)
(***************************************************************************)
AtUndispatchableSignal ==
    /\ pc = "signals"
    /\ ProtocolOfRef(mEnabledCollectionSchemeMap[i].signals[j])
          \notin {"RAW_SOCKET", "OBD", "COMPLEX_DATA"}

UndispatchableSignalSkipped ==
    AtUndispatchableSignal => decoderDictionaryMap' = decoderDictionaryMap

C22_UndispatchableSignalSkipped == [][UndispatchableSignalSkipped]_vars

(***************************************************************************)
(* C23.  A CAN signal or a raw CAN frame whose interface name the          *)
(* translator maps to INVALID_CAN_SOURCE_NUMERIC_ID is skipped: the step   *)
(* that visits it adds no channel, no frame entry and no signal id to      *)
(* collect, changes no entry that exists, and the loop goes on with the    *)
(* next signal or frame of the scheme.                                     *)
(***************************************************************************)
AtUnknownInterfaceSignal ==
    /\ pc = "signals"
    /\ LET ref == mEnabledCollectionSchemeMap[i].signals[j] IN
       /\ ProtocolOfRef(ref) = "RAW_SOCKET"
       /\ ~AcceptedCan(ref)

AtUnknownInterfaceFrame ==
    /\ pc = "frames"
    /\ getChannelNumericID(mEnabledCollectionSchemeMap[i].rawFrames[k].interfaceID)
          = INVALID_CAN_SOURCE_NUMERIC_ID

UnknownInterfaceSkipped ==
    /\ AtUnknownInterfaceSignal =>
          /\ DictionaryContents(decoderDictionaryMap') = DictionaryContents(decoderDictionaryMap)
          /\ j < Len(mEnabledCollectionSchemeMap[i].signals) =>
                (pc' = "signals" /\ i' = i /\ j' = j + 1)
          /\ (j = Len(mEnabledCollectionSchemeMap[i].signals)
                /\ mEnabledCollectionSchemeMap[i].rawFrames # <<>>) =>
                (pc' = "rawprologue" /\ i' = i)
    /\ AtUnknownInterfaceFrame =>
          /\ DictionaryContents(decoderDictionaryMap') = DictionaryContents(decoderDictionaryMap)
          /\ k < Len(mEnabledCollectionSchemeMap[i].rawFrames) =>
                (pc' = "frames" /\ i' = i /\ k' = k + 1)

C23_UnknownInterfaceSkipped == [][UnknownInterfaceSkipped]_vars

\* a signal on an unknown interface has been passed over, between two
\* signals that were accepted
C23_Witness ==
    /\ pc = "signals" /\ j = 3
    /\ ~AcceptedCan(mEnabledCollectionSchemeMap[i].signals[2])
    /\ ProtocolOfRef(mEnabledCollectionSchemeMap[i].signals[2]) = "RAW_SOCKET"
    /\ AcceptedCan(mEnabledCollectionSchemeMap[i].signals[1])
    /\ EntryKeys(CanMethodsOf(decoderDictionaryMap, "RAW_SOCKET")) # {}

\* a raw frame on an unknown interface has been passed over, and the frame
\* after it has its entry
C23_WitnessFrame ==
    /\ pc = "done" /\ pass = 1
    /\ \E n \in 1..Len(mEnabledCollectionSchemeMap) :
          LET frames == mEnabledCollectionSchemeMap[n].rawFrames IN
          /\ Len(frames) >= 2
          /\ getChannelNumericID(frames[1].interfaceID) = INVALID_CAN_SOURCE_NUMERIC_ID
          /\ getChannelNumericID(frames[2].interfaceID) # INVALID_CAN_SOURCE_NUMERIC_ID
    /\ EntryKeys(CanMethodsOf(decoderDictionaryMap, "RAW_SOCKET")) # {}

(***************************************************************************)
(* C24.  The claim: after a pass the dictionary of a protocol is null      *)
(* whenever no signal and no raw frame of any enabled scheme was accepted  *)
(* into it, also when schemes name the protocol only through CAN signals   *)
(* or raw frames on unknown interfaces or through complex signals that     *)
(* are unresolved or have an empty interface id.                           *)
(***************************************************************************)
AcceptedRawFrame(canFrameInfo) ==
    getChannelNumericID(canFrameInfo.interfaceID) # INVALID_CAN_SOURCE_NUMERIC_ID

AcceptedInto(protocol) ==
    \/ \E s \in Range(SignalsOf(mEnabledCollectionSchemeMap)) :
          /\ ProtocolOfRef(s) = protocol
          /\ AcceptedCan(s) \/ AcceptedObd(s) \/ AcceptedComplex(s)
    \/ /\ protocol = "RAW_SOCKET"
       /\ \E f \in Range(RawFramesOf(mEnabledCollectionSchemeMap)) : AcceptedRawFrame(f)

C24_NullUnlessAccepted ==
    pc = "done" =>
        \A protocol \in SUPPORTED_NETWORK_PROTOCOL :
            ~AcceptedInto(protocol) => DictOf(decoderDictionaryMap, protocol) = NullDict

(***************************************************************************)
(* C24 as amended.  After a pass the dictionary of a protocol is null      *)
(* exactly when no signal reference of an enabled scheme resolves to a     *)
(* signal of that protocol and, for RAW_SOCKET, no enabled scheme has raw  *)
(* frames.  A protocol that schemes name but into which nothing was        *)
(* accepted has a dictionary that is present and empty.                    *)
(***************************************************************************)
EmptyDictionaryOf(protocol) ==
    IF protocol = "COMPLEX_DATA" THEN NewComplexDataDecoderDictionary
    ELSE NewCANDecoderDictionary

C24_NullIffUnreferenced ==
    pc = "done" =>
        \A protocol \in SUPPORTED_NETWORK_PROTOCOL :
            LET d == DictOf(decoderDictionaryMap, protocol) IN
            /\ (d = NullDict) = ~ProtocolReferenced(protocol)
            /\ (ProtocolReferenced(protocol) /\ ~AcceptedInto(protocol))
                  => d = EmptyDictionaryOf(protocol)

\* a protocol named only by a CAN signal or raw frame on an unknown
\* interface, next to a protocol nothing names
C24_Witness ==
    /\ pc = "done"
    /\ ProtocolReferenced("RAW_SOCKET") /\ ~AcceptedInto("RAW_SOCKET")
    /\ DictOf(decoderDictionaryMap, "RAW_SOCKET") = NewCANDecoderDictionary
    /\ DictOf(decoderDictionaryMap, "OBD") = NullDict

\* the complex dictionary named only by a signal with an empty interface id
\* or an unresolved one
C24_WitnessComplex ==
    /\ pc = "done"
    /\ ProtocolReferenced("COMPLEX_DATA") /\ ~AcceptedInto("COMPLEX_DATA")
    /\ DictOf(decoderDictionaryMap, "COMPLEX_DATA") = NewComplexDataDecoderDictionary

(***************************************************************************)
(* C25.  A type id for which the manifest returns the Invalid variant is   *)
(* never put into a complex_type_map, so no map holds the Invalid variant  *)
(* for any id, and the traversal goes on with the types still on the       *)
(* stack: a valid sibling pushed with the invalid id is in the map.        *)
(***************************************************************************)
C25_InvalidTypesLeftOut ==
    LET cmm == ComplexMethodsOf(decoderDictionaryMap) IN
    \A key \in ComplexEntryKeys(cmm) :
        LET entry == cmm[key[1]][key[2]]
            root == getComplexDataType(entry.mRootTypeId)
        IN  /\ \A c \in DOMAIN entry.mComplexTypeMap :
                  /\ IsValidType(c)
                  /\ entry.mComplexTypeMap[c].kind # "InvalidComplexVariant"
            \* root 5 = struct {3, 6, 5}: the top of the stack is the last member,
            \* so 5 is popped again, then the invalid 6, and only then 3
            /\ entry.mRootTypeId = 5 => DOMAIN entry.mComplexTypeMap = {5, 3}

\* an entry whose root has an invalid member and a valid one
C25_Witness ==
    LET cmm == ComplexMethodsOf(decoderDictionaryMap) IN
    \E key \in ComplexEntryKeys(cmm) :
        LET members == Range(getComplexDataType(cmm[key[1]][key[2]].mRootTypeId).mOrderedTypeIds)
        IN  /\ \E c \in members : ~IsValidType(c)
            /\ \E c \in members : IsValidType(c) /\ Has(cmm[key[1]][key[2]].mComplexTypeMap, c)

(***************************************************************************)
(* C26.  Which id goes where.  The records of the OBD PID entries carry    *)
(* the ids the schemes name (the partial id when the signal was reached    *)
(* through one), the signalIDsToCollect of the OBD dictionary holds the    *)
(* resolved ids, and so does the signalIDsToCollect of the RAW_SOCKET      *)
(* dictionary.                                                             *)
(***************************************************************************)
ResolvedIdsOf(refs) == {ResolveSignal(s).signalId : s \in refs}

ObdRecordIds ==
    LET cm == CanMethodsOf(decoderDictionaryMap, "OBD") IN
    UNION { {cm[key[1]][key[2]].format.mSignals[n].mSignalID :
                n \in 1..Len(cm[key[1]][key[2]].format.mSignals)} : key \in EntryKeys(cm) }

C26_OriginalIdInRecordResolvedIdInSet ==
    LET obdRefs == {s \in Range(ProcessedSignals) : AcceptedObd(s)}
        canRefs == {s \in Range(ProcessedSignals) : AcceptedCan(s)}
    IN  /\ ObdRecordIds = obdRefs
        /\ DictOf(decoderDictionaryMap, "OBD").signalIDsToCollect = ResolvedIdsOf(obdRefs)
        /\ DictOf(decoderDictionaryMap, "RAW_SOCKET").signalIDsToCollect = ResolvedIdsOf(canRefs)

\* an OBD signal named by a partial id only: its record carries the partial
\* id, the set its parent
C26_Witness ==
    /\ pc = "done"
    /\ 131 \in Range(ProcessedSignals)
    /\ 11 \notin Range(ProcessedSignals)
    /\ 131 \in ObdRecordIds
    /\ DictOf(decoderDictionaryMap, "OBD").signalIDsToCollect = {11}

\* a CAN signal named by a partial id only
C26_WitnessCan ==
    /\ pc = "done"
    /\ Range(ProcessedSignals) = {135}
    /\ DictOf(decoderDictionaryMap, "RAW_SOCKET").signalIDsToCollect = {2}

(***************************************************************************)
(* C27.  OBD records are not deduplicated.  When a pass has ended, the     *)
(* signal list of a PID entry is as long as the number of accepted OBD     *)
(* references with that PID over all schemes, and a signal referenced k    *)
(* times has k equal records in it, while signalIDsToCollect, a set, holds *)
(* its id once.                                                            *)
(***************************************************************************)
Occurrences(seq, S) == Cardinality({n \in 1..Len(seq) : seq[n] \in S})

C27_ObdRecordPerReference ==
    pc = "done" =>
        LET cm == CanMethodsOf(decoderDictionaryMap, "OBD")
            refs == SignalsOf(mEnabledCollectionSchemeMap)
            obdRefs == {x \in Range(refs) : AcceptedObd(x)}
        IN  /\ \A key \in EntryKeys(cm) :
                  Len(cm[key[1]][key[2]].format.mSignals) =
                      Occurrences(refs, {x \in obdRefs : PidOfRef(x) = key[2]})
            /\ \A s \in obdRefs :
                  LET record == OBDSignalFormat(s, getPIDSignalDecoderFormat(ResolveSignal(s).signalId))
                  IN  /\ Occurrences(cm[0][PidOfRef(s)].format.mSignals, {record})
                            = Occurrences(refs, {s})
                      /\ ResolveSignal(s).signalId
                            \in DictOf(decoderDictionaryMap, "OBD").signalIDsToCollect

\* one OBD signal collected by two schemes: two equal records, one id
C27_Witness ==
    /\ pc = "done"
    /\ Len(mEnabledCollectionSchemeMap) = 2
    /\ mEnabledCollectionSchemeMap[1].signals = <<11>>
    /\ mEnabledCollectionSchemeMap[2].signals = <<11>>
    /\ LET signals == CanMethodsOf(decoderDictionaryMap, "OBD")[0][PidOfRef(11)].format.mSignals
       IN  Len(signals) = 2 /\ signals[1] = signals[2]
    /\ DictOf(decoderDictionaryMap, "OBD").signalIDsToCollect = {11}

(***************************************************************************)
(* C28.  In every state of a pass, each id in the signalIDsToCollect of    *)
(* the RAW_SOCKET dictionary has an entry at the channel of its interface  *)
(* and its frame id, and that entry is DECODE or RAW_AND_DECODE: no id is  *)
(* in the set while its frame is missing or RAW.                           *)
(***************************************************************************)
C28_CollectedIdsHaveDecodedFrame ==
    LET d == DictOf(decoderDictionaryMap, "RAW_SOCKET")
        cm == CanMethodsOf(decoderDictionaryMap, "RAW_SOCKET")
    IN  \A signalId \in d.signalIDsToCollect :
            LET fi == getCANFrameAndInterfaceID(signalId)
                canChannelID == getChannelNumericID(fi[2])
            IN  /\ <<canChannelID, fi[1]>> \in EntryKeys(cm)
                /\ cm[canChannelID][fi[1]].collectType \in {"DECODE", "RAW_AND_DECODE"}

\* a signal whose frame was in the dictionary as RAW when the signal came, from
\* the raw frames of an earlier scheme, and a later raw frame on a decoded frame
C28_Witness ==
    /\ pc = "done"
    /\ Len(mEnabledCollectionSchemeMap) = 2
    /\ mEnabledCollectionSchemeMap[1] = [signals |-> <<>>, rawFrames |-> <<Frame(256, "can0")>>]
    /\ mEnabledCollectionSchemeMap[2].signals = <<1>>
    /\ mEnabledCollectionSchemeMap[2].rawFrames = <<Frame(256, "can0")>>
    /\ 1 \in DictOf(decoderDictionaryMap, "RAW_SOCKET").signalIDsToCollect
    /\ CanMethodsOf(decoderDictionaryMap, "RAW_SOCKET")[0][256].collectType = "RAW_AND_DECODE"

(***************************************************************************)
(* C29.  Between polls the two trace counters of the GPS source equal what *)
(* the signal buffer accepted: QUEUE_CONSUMER_TO_INSPECTION_SIGNALS the    *)
(* number of signals and QUEUE_CONSUMER_TO_INSPECTION_DATA_FRAMES the      *)
(* number of frames, a refused push leaving both as they were before it.   *)
(***************************************************************************)
AcceptedFrames == Len(mSignalBufferPtr.frames)

AcceptedSignals == 2 * AcceptedFrames

C29_CountersMatchAccepted ==
    gpsPc = "idle" =>
        /\ traceModule["QUEUE_CONSUMER_TO_INSPECTION_SIGNALS"] = AcceptedSignals
        /\ traceModule["QUEUE_CONSUMER_TO_INSPECTION_DATA_FRAMES"] = AcceptedFrames

(***************************************************************************)
(* C30.  A call of pollData hands at most one frame to the signal buffer,  *)
(* and one only when read() succeeded, a signal buffer is set and some     *)
(* $GPGGA line of the buffer gave a valid latitude and a valid longitude.  *)
(* The frame holds two signals, the latitude and the longitude of the last *)
(* such line.  Every iteration of the scan loop moves i forward, within    *)
(* the bytes read, so the loop ends.                                       *)
(***************************************************************************)
ValidLines == {n \in 1..Len(lineResults) : lineResults[n].valid}

LastValidLine == lineResults[CHOOSE n \in ValidLines : \A m \in ValidLines : m <= n]

OneFrameFromLastValidLine ==
    /\ Len(pushLog) <= 1
    /\ AcceptedFrames <= polls
    /\ pushLog # <<>> =>
          /\ bytes >= 0
          /\ ~mSignalBufferPtr.null
          /\ ValidLines # {}
          /\ LET frame == pushLog[1].frame IN
             /\ Len(frame) = 2
             /\ frame[1].signalID = getSignalIdFromStartBit(mLatitudeStartBit)
             /\ frame[1].value = LastValidLine.latitude
             /\ frame[2].signalID = getSignalIdFromStartBit(mLongitudeStartBit)
             /\ frame[2].value = LastValidLine.longitude
             /\ validLatitude(frame[1].value) /\ validLongitude(frame[2].value)
             /\ pushLog[1].accepted =>
                   mSignalBufferPtr.frames[Len(mSignalBufferPtr.frames)] = frame

ScanAdvances ==
    gpsPc = "scan" =>
        \/ gpsPc' = "idle" /\ ~(pollI < bytes - 7)
        \/ /\ gpsPc' = "scan"
           /\ bytes' = bytes
           /\ pollI < pollI' /\ pollI' <= bytes - 6

C30_OneFrameFromLastValidLine == []OneFrameFromLastValidLine /\ [][ScanAdvances]_vars

\* two valid lines with different coordinates in one read: the frame that was
\* accepted holds those of the second line, 0 deg 30' S and 0 deg 20' W
C30_Witness ==
    /\ gpsPc = "idle"
    /\ SubSeq(mBuffer, 1, bytes) = LineA \o LineB
    /\ Len(lineResults) = 2
    /\ lineResults[1].valid /\ lineResults[2].valid
    /\ lineResults[1].latitude = Finite(45)
    /\ Len(pushLog) = 1 /\ pushLog[1].accepted
    /\ pushLog[1].frame[1].value = Finite(-30)
    /\ pushLog[1].frame[2].value = Finite(-20)

\* a valid line, then a line that is not: the frame holds the first
C30_WitnessInvalidLast ==
    /\ gpsPc = "idle"
    /\ SubSeq(mBuffer, 1, bytes) = LineA \o LineNorthOfPole
    /\ Len(lineResults) = 2 /\ ~lineResults[2].valid
    /\ Len(pushLog) = 1
    /\ pushLog[1].frame[1].value = Finite(45)
    /\ pushLog[1].frame[2].value = Finite(9)

\* a line cut after the third comma: the longitude is read from the bytes an
\* earlier read left in the buffer
C30_WitnessStaleBytes ==
    /\ gpsPc = "idle"
    /\ SubSeq(mBuffer, 1, bytes) = LineCutAfterNorth
    /\ Len(pushLog) = 1
    /\ pushLog[1].frame[2].value = Finite(9)

(***************************************************************************)
(* C31.  A call of init returns false exactly when the CAN channel is      *)
(* INVALID_CAN_SOURCE_NUMERIC_ID, or the path is empty and no Quectel      *)
(* device is detected, and then the NMEA path, the two start bits, the CAN *)
(* channel and the raw frame id are as they were and no filter is set.     *)
(* When it returns true they are the arguments, the path being the default *)
(* path when the argument is empty, and the filter is set for the channel  *)
(* and the frame id.                                                       *)
(***************************************************************************)
InitRefused(call) ==
    \/ call.canChannel = INVALID_CAN_SOURCE_NUMERIC_ID
    \/ call.pathToNmeaSource = <<>> /\ ~call.quectelDetected

InitLeavesOrSetsAll ==
    inits' = inits + 1 =>
        LET call == initLog' IN
        /\ call.result = ~InitRefused(call)
        /\ ~call.result =>
              UNCHANGED <<mPathToNmeaSource, mLatitudeStartBit, mLongitudeStartBit,
                          mCanChannel, mCanRawFrameId, filter>>
        /\ call.result =>
              /\ mPathToNmeaSource' = IF call.pathToNmeaSource = <<>>
                                      THEN DEFAULT_PATH_TO_NMEA_SOURCE
                                      ELSE call.pathToNmeaSource
              /\ mLatitudeStartBit' = call.latitudeStartBit
              /\ mLongitudeStartBit' = call.longitudeStartBit
              /\ mCanChannel' = call.canChannel
              /\ mCanRawFrameId' = call.canRawFrameId
              /\ filter' = [set |-> TRUE, canChannel |-> call.canChannel,
                            canRawFrameId |-> call.canRawFrameId]

C31_InitLeavesOrSetsAll == [][InitLeavesOrSetsAll]_vars

\* a call with an empty path and no device, with arguments that differ from
\* what an earlier call had set: the members still hold the earlier values
C31_Witness ==
    /\ inits = 2
    /\ ~initLog.result
    /\ initLog.pathToNmeaSource = <<>> /\ initLog.canChannel = 1
    /\ initLog.canRawFrameId = 512 /\ initLog.latitudeStartBit = 0
    /\ mPathToNmeaSource = <<"dev", "ttyS0">>
    /\ mCanChannel = 0 /\ mCanRawFrameId = 256
    /\ mLatitudeStartBit = 32 /\ mLongitudeStartBit = 0
    /\ filter = setFilter(0, 256)

\* a first call with an empty path and a device: the default path
C31_WitnessDefaultPath ==
    /\ inits = 1
    /\ initLog.result /\ initLog.pathToNmeaSource = <<>>
    /\ mPathToNmeaSource = DEFAULT_PATH_TO_NMEA_SOURCE
    /\ filter.set

\* a first call with the invalid channel: the source is as constructed
C31_WitnessInvalidChannel ==
    /\ inits = 1
    /\ ~initLog.result /\ initLog.pathToNmeaSource # <<>>
    /\ mPathToNmeaSource = <<>> /\ ~filter.set

=============================================================================
